---- MODULE Spec2Model ----
(***************************************************************************)
(* Request admission and identity verification core of service-presensi:  *)
(* the per-client token-bucket registries (global and login) with their   *)
(* background sweep, the middleware chain built by NewRouter, and the JWT  *)
(* manager.                                                                *)
(*                                                                         *)
(* Time is a discrete clock `now`.  Bucket fill is counted in units of     *)
(* 1/TokenScale token, refill rates in units per tick, so that instants    *)
(* closer than 1/r to each other exist in the model.                       *)
(***************************************************************************)
EXTENDS Integers, Sequences, FiniteSets, TLC

\* ---------------------------------------------------------------- bounds
MaxTime == 2           \* the clock stops advancing here
TokenScale == 2        \* units per token
GlobalRate == 2        \* RequestsPerSecond of the global registry, units per tick
GlobalBurst == 2       \* BurstSize of the global registry, tokens
GlobalMaxAge == 1      \* MaxAge of the global registry, ticks
LoginRate == 1         \* RequestsPerSecond of the login registry, units per tick
LoginBurst == 1        \* BurstSize of the login registry, tokens
LoginMaxAge == 1       \* MaxAge of the login registry, ticks
AccessDuration == 2    \* accessTokenDuration, ticks
MaxTokens == 2         \* tokens issued in one behaviour
QuarterTurn == 2       \* grid steps in a quarter of a great circle (90 degrees)
MaxRadius == 2         \* largest zone radius, grid steps

\* ------------------------------------------------------------- constants
ZeroTime == -1                   \* the zero time.Time (before every instant)
StatusOK == 200
StatusUnauthorized == 401
StatusForbidden == 403
StatusTooManyRequests == 429
StatusBadRequest == 400
StatusInternalServerError == 500

Procs == {"p1", "p2"}
Time == 0..MaxTime
Registries == {"global", "login"}
Keys == {"k1", "k2"}
RouterKeys == {"k1"}
RouterProcs == {"p1"}
Users == {"u1"}
LimIds == 1..(Cardinality(Keys) + Cardinality(Procs))

Min(a, b) == IF a <= b THEN a ELSE b

VARIABLES
  now,        \* the wall clock
  visitors,   \* RateLimiter.visitors of each registry: key -> visitor
  limiters,   \* the rate.Limiter objects of each registry (heap cells)
  sweep,      \* position of each registry's cleanupVisitors goroutine
  req,        \* the request each goroutine is serving, and its position
  users,      \* the user store
  issued,     \* signed tokens handed out to clients
  hist,       \* per limiter: what was served since the clock last advanced
  swept,      \* per registry: a sweep pass has run since the clock last advanced
  geo,        \* the LocationService: its enabled flag and the zone store behind it
  near,       \* the last call of the service, if to GetNearestLocation: argument, result
  call,       \* the last call of the service, if to ValidateCheckInLocation
  presensi,   \* the stored attendance record
  ci          \* the check-in request each goroutine is serving

geoVars == <<geo, call, near, presensi, ci>>

VARIABLES
  config,     \* RateLimiter.config of each registry
  audit,      \* the audit log entry last given to auditRepo.Create
  never,      \* per registry: the same registry were no entry ever evicted
  answers,    \* the last admission check answered by a registry and by its like
  collection, \* the documents of the users collection, in insertion order
  register,   \* the Register call each goroutine is serving, and its position
  charged     \* the requests Limit has keyed, in order, each with its key

restVars == <<config, audit, never, answers, collection, register, charged>>

vars == <<now, visitors, limiters, sweep, req, users, issued, hist, swept, geoVars, restVars>>

\* ------------------------------------------------------- configuration
DefaultRateLimiterConfig ==
  [RequestsPerSecond |-> GlobalRate, BurstSize |-> GlobalBurst, MaxAge |-> GlobalMaxAge]

LoginRateLimiterConfig ==
  [RequestsPerSecond |-> LoginRate, BurstSize |-> LoginBurst, MaxAge |-> LoginMaxAge]

\* The configurations as shipped, a tick being a second: 10 requests a second,
\* a burst of 20 and 3 minutes for the global registry; 1 request a second, a
\* burst of 5 and 5 minutes for the login registry.
ShippedConfig(reg) ==
  IF reg = "global"
  THEN [RequestsPerSecond |-> 10 * TokenScale, BurstSize |-> 20, MaxAge |-> 3 * 60]
  ELSE [RequestsPerSecond |-> 1 * TokenScale, BurstSize |-> 5, MaxAge |-> 5 * 60]

\* the configuration main gives NewRateLimiter for each registry
MainConfig(reg) ==
  IF reg = "global" THEN DefaultRateLimiterConfig ELSE LoginRateLimiterConfig

\* rl.config
Config(reg) == config[reg]

\* capacity of a bucket of the registry, in units
Capacity(reg) == Config(reg).BurstSize * TokenScale

\* The registry a Limit middleware stage works on: NewRouter wraps the whole mux
\* in a registry of its own and the login route in cfg.LoginRateLimiter.
LimiterOfShared(stage) == "login"

LimiterOf(stage) == IF stage = "global" THEN "global" ELSE "login"

\* ------------------------------------------------------------ rate.Limiter
\* lim.burst is the configured BurstSize less spent
NoLimiter == [live |-> FALSE, tokens |-> 0, last |-> ZeroTime, spent |-> 0]

\* rate.NewLimiter: no tokens, last refill at the zero time
NewLimiter == [live |-> TRUE, tokens |-> 0, last |-> ZeroTime, spent |-> 0]

\* Limiter.advance: the fill at time t, lazily refilled and clipped to the burst.
\* The time elapsed since the zero time refills any bucket completely.
AdvanceUnclipped(reg, lim, t) ==
  IF lim.last = ZeroTime
  THEN Capacity(reg)
  ELSE lim.tokens + (t - lim.last) * Config(reg).RequestsPerSecond

Advance(reg, lim, t) ==
  IF lim.last = ZeroTime
  THEN Capacity(reg)
  ELSE Min(Capacity(reg), lim.tokens + (t - lim.last) * Config(reg).RequestsPerSecond)

\* Limiter.Allow at time t: one token is taken if the refilled bucket holds one;
\* a refused call leaves the limiter as it was.
AllowChargesRefused(reg, lim, t) ==
  LET tokens == Advance(reg, lim, t) - TokenScale
  IN  [ok |-> tokens >= 0,
       lim |-> [lim EXCEPT !.tokens = IF tokens >= 0 THEN tokens ELSE 0, !.last = t]]

AllowNoRefill(reg, lim, t) ==
  LET tokens == (IF lim.last = ZeroTime THEN Capacity(reg) ELSE lim.tokens) - TokenScale
  IN  [ok |-> tokens >= 0,
       lim |-> IF tokens >= 0 THEN [lim EXCEPT !.tokens = tokens, !.last = t] ELSE lim]

\* Limiter.reserveN with a limit of 0: the event is taken from lim.burst itself,
\* which nothing refills; neither tokens nor last is touched.
AllowZeroLimitKeepsBurst(reg, lim) ==
  [ok |-> Config(reg).BurstSize - lim.spent >= 1, lim |-> lim]

AllowZeroLimit(reg, lim) ==
  IF Config(reg).BurstSize - lim.spent >= 1
  THEN [ok |-> TRUE, lim |-> [lim EXCEPT !.spent = @ + 1]]
  ELSE [ok |-> FALSE, lim |-> lim]

Allow(reg, lim, t) ==
  IF Config(reg).RequestsPerSecond = 0 THEN AllowZeroLimit(reg, lim)
  ELSE LET tokens == Advance(reg, lim, t) - TokenScale
       IN  [ok |-> tokens >= 0,
            lim |-> IF tokens >= 0 THEN [lim EXCEPT !.tokens = tokens, !.last = t]
                    ELSE lim]

\* ------------------------------------------------------------ RateLimiter
NoVisitor == [limiter |-> 0, lastSeen |-> ZeroTime]

FreeId(lims) ==
  CHOOSE i \in LimIds : ~lims[i].live /\ \A j \in LimIds : ~lims[j].live => i <= j

\* RateLimiter.getVisitor(ip) at time t, under rl.mu: the key's limiter, created
\* on first access; lastSeen is refreshed.
getVisitorAlwaysNew(vis, lims, ip, t) ==
  LET id == FreeId(lims)
  IN  [visitors |-> [vis EXCEPT ![ip] = [limiter |-> id, lastSeen |-> t]],
       limiters |-> [lims EXCEPT ![id] = NewLimiter],
       limiter |-> id]

getVisitor(vis, lims, ip, t) ==
  IF vis[ip].limiter = 0
  THEN LET id == FreeId(lims)
       IN  [visitors |-> [vis EXCEPT ![ip] = [limiter |-> id, lastSeen |-> t]],
            limiters |-> [lims EXCEPT ![id] = NewLimiter],
            limiter |-> id]
  ELSE [visitors |-> [vis EXCEPT ![ip].lastSeen = t],
        limiters |-> lims,
        limiter |-> vis[ip].limiter]

\* one pass of RateLimiter.cleanupVisitors at time t: the map without the
\* entries last seen more than MaxAge ago
cleanupVisitorsUnaged(reg, vis, t) ==
  [k \in Keys |-> NoVisitor]

cleanupVisitorsInclusive(reg, vis, t) ==
  [k \in Keys |->
     IF vis[k].limiter # 0 /\ t - vis[k].lastSeen >= Config(reg).MaxAge
     THEN NoVisitor ELSE vis[k]]

cleanupVisitors(reg, vis, t) ==
  [k \in Keys |->
     IF vis[k].limiter # 0 /\ t - vis[k].lastSeen > Config(reg).MaxAge
     THEN NoVisitor ELSE vis[k]]

\* ------------------------------------------------------------- JWTManager
ErrInvalidToken == "token tidak valid"
ErrExpiredToken == "token sudah expired"

RoleOf(u) == "admin"
EmailOf(u) == u

\* signing methods a token header can name, and those of type SigningMethodHMAC
Algs == {"HS256", "HS384", "RS256", "none"}
SigningMethodHMAC == {"HS256", "HS384"}

Roles == {"admin", "employee"}

\* what the signature of a token covers: header and claims
Payload(tok) ==
  <<tok.alg, tok.sub, tok.email, tok.role, tok.tokenType, tok.iat, tok.nbf, tok.exp>>

\* SigningMethod.Sign with a key: the signature binds the key to the payload
Sign(key, payload) == [key |-> key, payload |-> payload]

NoSig == [key |-> "", payload |-> << >>]

\* no Authorization header
NoToken ==
  [sub |-> "", email |-> "", role |-> "", tokenType |-> "",
   iat |-> ZeroTime, nbf |-> ZeroTime, exp |-> ZeroTime, alg |-> "", sig |-> NoSig]

\* an Authorization header that is not "Bearer <token>"
BadHeader == [NoToken EXCEPT !.alg = "Basic"]

\* a bearer string that does not parse as a token
Malformed == [NoToken EXCEPT !.alg = "garbage"]

\* JWTManager.GenerateToken: the claims, signed HS256 with the manager's secret.
\* The three timestamps are three readings of the clock; TokenType is not set.
GenerateToken(userID, email, role, tExp, tIat, tNbf) ==
  LET c == [sub |-> userID, email |-> email, role |-> role, tokenType |-> "",
            iat |-> tIat, nbf |-> tNbf, exp |-> tExp + AccessDuration,
            alg |-> "HS256", sig |-> NoSig]
  IN  [c EXCEPT !.sig = Sign("secretKey", Payload(c))]

\* the key function ValidateToken gives the parser: the secret for a method of
\* the HMAC family, else no key and ErrInvalidToken
KeyfuncAnyMethod(tok) == [key |-> "secretKey", err |-> "nil"]

Keyfunc(tok) ==
  IF tok.alg \in SigningMethodHMAC
  THEN [key |-> "secretKey", err |-> "nil"]
  ELSE [key |-> "", err |-> ErrInvalidToken]

\* SigningMethod.Verify: an HMAC method recomputes the signature with the key;
\* the other methods do not accept the byte-slice key
Verify(tok, key) ==
  tok.alg \in SigningMethodHMAC /\ key # "" /\ tok.sig = Sign(key, Payload(tok))

\* the registered-claims validation of the parser at time t: the errors found
ValidateClaims(tok, t) ==
  (IF ~(t < tok.exp) THEN {"ErrTokenExpired"} ELSE {})
    \cup (IF t < tok.nbf THEN {"ErrTokenNotValidYet"} ELSE {})

\* JWTManager.ValidateToken at time t: "ok" or the error returned.  The token
\* is parsed, the key function refuses a non-HMAC method, the signature is
\* verified, then the registered claims: expired unless t < exp, not yet valid
\* if t < nbf.  Only an error that is ErrTokenExpired becomes ErrExpiredToken.
ValidateTokenClaimsFirst(tok, t) ==
  IF tok.alg \notin Algs THEN ErrInvalidToken
  ELSE IF "ErrTokenExpired" \in ValidateClaims(tok, t) THEN ErrExpiredToken
  ELSE IF Keyfunc(tok).err # "nil" THEN ErrInvalidToken
  ELSE IF ~Verify(tok, Keyfunc(tok).key) THEN ErrInvalidToken
  ELSE IF ValidateClaims(tok, t) # {} THEN ErrInvalidToken
  ELSE "ok"

ValidateToken(tok, t) ==
  IF tok.alg \notin Algs THEN ErrInvalidToken
  ELSE IF Keyfunc(tok).err # "nil" THEN ErrInvalidToken
  ELSE IF ~Verify(tok, Keyfunc(tok).key) THEN ErrInvalidToken
  ELSE IF "ErrTokenExpired" \in ValidateClaims(tok, t) THEN ErrExpiredToken
  ELSE IF ValidateClaims(tok, t) # {} THEN ErrInvalidToken
  ELSE "ok"

\* the *Claims ValidateToken returns with a nil error: the payload decoded
\* into the Claims struct
ClaimsOf(tok) ==
  [UserID |-> tok.sub, Email |-> tok.email, Role |-> tok.role,
   TokenType |-> tok.tokenType, IssuedAt |-> tok.iat, NotBefore |-> tok.nbf,
   ExpiresAt |-> tok.exp]

\* tokens this manager can have issued to a user with either role
Genuine ==
  {GenerateToken(u, EmailOf(u), r, t, t, tn) :
     u \in Users, r \in Roles, t \in Time, tn \in Time}

\* a token with its header set to a method and signed again with a key
Resign(tok, alg, key) ==
  LET c == [tok EXCEPT !.alg = alg]
  IN  [c EXCEPT !.sig = Sign(key, Payload(c))]

\* what a client can make of a genuine token: the token itself, the token
\* signed again under any method with the secret or with another key, and the
\* token with its header, role or expiry changed and the signature kept
Forged(tok) ==
  {tok}
    \cup {Resign(tok, a, k) : a \in Algs, k \in {"secretKey", "otherKey"}}
    \cup {[tok EXCEPT !.alg = a] : a \in Algs}
    \cup {[tok EXCEPT !.role = r] : r \in Roles}
    \cup {[tok EXCEPT !.exp = MaxTime + AccessDuration + 1]}
    \cup {[tok EXCEPT !.alg = "none", !.sig = NoSig]}

\* the Authorization headers a client can send
Presentable ==
  {NoToken, BadHeader, Malformed} \cup UNION {Forged(tok) : tok \in Genuine}

\* -------------------------------------------------------------- requests
Routes == {"public", "login", "protected", "admin"}

\* the role set RequireRole is given on the admin routes
RequiredRoles == {"admin"}

IdleReq ==
  [pc |-> "idle", key |-> "", route |-> "", tok |-> NoToken, lim |-> 0,
   trace |-> << >>, status |-> 0, retryAfter |-> FALSE, err |-> "",
   user |-> "", role |-> "", pwOk |-> FALSE, exp |-> ZeroTime, iat |-> ZeroTime]

\* the request once its answer is written: what the client sees
Answer(rq, stage, status, err) ==
  [IdleReq EXCEPT !.pc = "done", !.route = rq.route, !.tok = rq.tok, !.user = rq.user,
                  !.trace = Append(rq.trace, stage), !.status = status,
                  !.retryAfter = (status = StatusTooManyRequests), !.err = err]

\* The handler NewRouter puts behind a stage that accepted: the mux route, with
\* the login limiter before Login, Authenticate before a protected handler, and
\* Authenticate then RequireRole("admin") before an admin handler.
NextStage(stage, route) ==
  IF stage = "global"
  THEN (IF route = "login" THEN "login_visitor"
        ELSE IF route \in {"protected", "admin"} THEN "authenticate"
        ELSE "handler")
  ELSE IF stage = "authenticate" /\ route = "admin" THEN "require_role"
  ELSE "handler"

\* RateLimiter.Limit after limiter.Allow() returned ok: a refused request is
\* answered 429 with Retry-After and goes no further.
LimitFallsThrough(rq, stage, ok) ==
  [rq EXCEPT !.pc = NextStage(stage, rq.route), !.lim = 0,
             !.trace = Append(@, stage),
             !.status = IF ok THEN 0 ELSE StatusTooManyRequests,
             !.retryAfter = ~ok]

Limit(rq, stage, ok) ==
  IF ~ok
  THEN Answer(rq, stage, StatusTooManyRequests, "Terlalu banyak request, coba lagi nanti")
  ELSE [rq EXCEPT !.pc = NextStage(stage, rq.route), !.lim = 0,
                  !.trace = Append(@, stage)]

\* AuthMiddleware.Authenticate at time t: 401 without an Authorization header,
\* with one that is not "Bearer <token>" or when ValidateToken fails, else the
\* user ID, email and role of the claims go into the context and next runs.
AuthenticateChecksUser(rq, t, store) ==
  IF rq.tok = NoToken
  THEN Answer(rq, "authenticate", StatusUnauthorized, "Authorization header diperlukan")
  ELSE IF rq.tok = BadHeader
  THEN Answer(rq, "authenticate", StatusUnauthorized, "Format token tidak valid")
  ELSE IF ValidateToken(rq.tok, t) # "ok" \/ store[rq.tok.sub] # "active"
  THEN Answer(rq, "authenticate", StatusUnauthorized,
              IF ValidateToken(rq.tok, t) # "ok" THEN ValidateToken(rq.tok, t)
              ELSE ErrInvalidToken)
  ELSE [rq EXCEPT !.pc = NextStage("authenticate", rq.route),
                  !.trace = Append(@, "authenticate"),
                  !.user = ClaimsOf(rq.tok).UserID, !.role = ClaimsOf(rq.tok).Role]

Authenticate(rq, t, store) ==
  IF rq.tok = NoToken
  THEN Answer(rq, "authenticate", StatusUnauthorized, "Authorization header diperlukan")
  ELSE IF rq.tok = BadHeader
  THEN Answer(rq, "authenticate", StatusUnauthorized, "Format token tidak valid")
  ELSE IF ValidateToken(rq.tok, t) # "ok"
  THEN Answer(rq, "authenticate", StatusUnauthorized, ValidateToken(rq.tok, t))
  ELSE [rq EXCEPT !.pc = NextStage("authenticate", rq.route),
                  !.trace = Append(@, "authenticate"),
                  !.user = ClaimsOf(rq.tok).UserID, !.role = ClaimsOf(rq.tok).Role]

\* AuthMiddleware.RequireRole(roles...): 403 unless the role in the context is
\* one of roles
RequireRoleUnauthorized(rq, roles) ==
  IF rq.role \in roles
  THEN [rq EXCEPT !.pc = "handler", !.trace = Append(@, "require_role")]
  ELSE Answer(rq, "require_role", StatusUnauthorized, "Akses ditolak")

RequireRole(rq, roles) ==
  IF rq.role \in roles
  THEN [rq EXCEPT !.pc = "handler", !.trace = Append(@, "require_role")]
  ELSE Answer(rq, "require_role", StatusForbidden, "Akses ditolak")

\* -------------------------------------------------------- LocationService
\* Coordinates lie on the great circle through the poles made of the meridians
\* 0 and 180: latitude in grid steps from the equator, longitude 0 or HalfTurn
\* (180 degrees).  Distances and radii are counted in grid steps of that circle.
HalfTurn == 2 * QuarterTurn

Lats == (0 - QuarterTurn)..QuarterTurn
Lons == {0, HalfTurn}
Coords == [lat : Lats, lon : Lons]

\* where a coordinate lies on the circle, in steps from (0, 0)
Angle(lat, lon) == IF lon = 0 THEN lat ELSE HalfTurn - lat

\* LocationService.HaversineDistance: the length of the shorter arc
HaversineDistance(lat1, lon1, lat2, lon2) ==
  LET d == IF Angle(lat1, lon1) >= Angle(lat2, lon2)
           THEN Angle(lat1, lon1) - Angle(lat2, lon2)
           ELSE Angle(lat2, lon2) - Angle(lat1, lon1)
  IN  Min(d, 2 * HalfTurn - d)

\* entity.AllowedLocation: centre and radius (NewAllowedLocation wants radius > 0)
AllowedLocations == [Latitude : Lats, Longitude : Lons, RadiusMeters : 1..MaxRadius]

ZoneSlots == {1, 2}

\* the lists GetAllActive can return, of at most n locations
Lists(n) == UNION {[1..k -> AllowedLocations] : k \in 0..n}

ErrOutsideAllowedArea == "lokasi check-in di luar area yang diizinkan"
ErrNoAllowedLocations == "tidak ada lokasi yang dikonfigurasi"
ErrStore == "GetAllActive failed"

\* a LocationService: NewLocationService(repo, enabled), the repository holding
\* the active locations or failing its fetch
NoGeo == [enabled |-> FALSE, zones |-> << >>, storeFails |-> FALSE]

\* LocationRepository.GetAllActive: the active locations, or the store's error
GetAllActive(svc) ==
  IF svc.storeFails THEN [locations |-> << >>, err |-> ErrStore]
  ELSE [locations |-> svc.zones, err |-> "nil"]

\* the loop of ValidateCheckInLocation: some location has the coordinate within
\* its radius
WithinAnyStrict(locations, lat, lon) ==
  \E i \in 1..Len(locations) :
    HaversineDistance(lat, lon, locations[i].Latitude, locations[i].Longitude)
      < locations[i].RadiusMeters

WithinAny(locations, lat, lon) ==
  \E i \in 1..Len(locations) :
    HaversineDistance(lat, lon, locations[i].Latitude, locations[i].Longitude)
      <= locations[i].RadiusMeters

\* ValidateCheckInLocation from the result r of GetAllActive on: the error
\* returned ("nil" when the check-in is allowed)
CheckLocationsNoEmptyCheck(r, lat, lon) ==
  IF r.err # "nil" THEN r.err
  ELSE IF WithinAny(r.locations, lat, lon) THEN "nil"
  ELSE ErrOutsideAllowedArea

CheckLocationsErrorDenies(r, lat, lon) ==
  IF r.err # "nil" THEN ErrOutsideAllowedArea
  ELSE IF Len(r.locations) = 0 THEN ErrNoAllowedLocations
  ELSE IF WithinAny(r.locations, lat, lon) THEN "nil"
  ELSE ErrOutsideAllowedArea

CheckLocations(r, lat, lon) ==
  IF r.err # "nil" THEN r.err
  ELSE IF Len(r.locations) = 0 THEN ErrNoAllowedLocations
  ELSE IF WithinAny(r.locations, lat, lon) THEN "nil"
  ELSE ErrOutsideAllowedArea

\* LocationService.ValidateCheckInLocation(lat, lon): the error returned and
\* whether GetAllActive was called
ValidateCheckInLocationFetchFirst(svc, lat, lon) ==
  IF ~svc.enabled THEN [fetched |-> FALSE, err |-> "nil"]
  ELSE [fetched |-> TRUE, err |-> CheckLocations(GetAllActive(svc), lat, lon)]

ValidateCheckInLocation(svc, lat, lon) ==
  IF ~svc.enabled THEN [fetched |-> FALSE, err |-> "nil"]
  ELSE IF lat = 0 /\ lon = 0 THEN [fetched |-> FALSE, err |-> "nil"]
  ELSE [fetched |-> TRUE, err |-> CheckLocations(GetAllActive(svc), lat, lon)]

\* math.MaxFloat64: above every distance there is
MaxFloat64 == 2 * HalfTurn + 1

\* the loop of GetNearestLocation from index i on, nearest (0 for nil) and
\* minDistance being what the locations before i left
RECURSIVE NearestFromLast(_, _, _, _, _, _)
NearestFromLast(locations, lat, lon, i, nearest, minDistance) ==
  IF i > Len(locations) THEN [nearest |-> nearest, distance |-> minDistance]
  ELSE LET distance == HaversineDistance(lat, lon, locations[i].Latitude,
                                         locations[i].Longitude)
       IN  IF distance <= minDistance
           THEN NearestFromLast(locations, lat, lon, i + 1, i, distance)
           ELSE NearestFromLast(locations, lat, lon, i + 1, nearest, minDistance)

RECURSIVE NearestFrom(_, _, _, _, _, _)
NearestFrom(locations, lat, lon, i, nearest, minDistance) ==
  IF i > Len(locations) THEN [nearest |-> nearest, distance |-> minDistance]
  ELSE LET distance == HaversineDistance(lat, lon, locations[i].Latitude,
                                         locations[i].Longitude)
       IN  IF distance < minDistance
           THEN NearestFrom(locations, lat, lon, i + 1, i, distance)
           ELSE NearestFrom(locations, lat, lon, i + 1, nearest, minDistance)

\* LocationService.GetNearestLocation(lat, lon): the index of the location
\* returned (0 for nil), the distance and the error
GetNearestLocation(svc, lat, lon) ==
  LET r == GetAllActive(svc)
  IN  IF r.err # "nil" THEN [nearest |-> 0, distance |-> 0, err |-> r.err]
      ELSE IF Len(r.locations) = 0
      THEN [nearest |-> 0, distance |-> 0, err |-> ErrNoAllowedLocations]
      ELSE LET n == NearestFrom(r.locations, lat, lon, 1, 0, MaxFloat64)
           IN  [nearest |-> n.nearest, distance |-> n.distance, err |-> "nil"]

NoNear == [made |-> FALSE, lat |-> 0, lon |-> 0, nearest |-> 0, distance |-> 0,
           err |-> "nil"]

NoCall == [made |-> FALSE, lat |-> 0, lon |-> 0, fetched |-> FALSE, err |-> "nil"]

\* ---------------------------------------------------------------- Presensi
ErrAlreadyCheckedIn == "sudah melakukan check-in"

ErrNotCheckedIn == "belum melakukan check-in"
ErrAlreadyCheckedOut == "sudah melakukan check-out"
ErrInvalidStatus == "status presensi tidak valid"

\* valueobject.StatusPresensi and IsValid
StatusPresensi == {"hadir", "terlambat", "izin", "sakit", "alpha"}

\* the attendance record: JamMasuk and JamKeluar are nil (the zero time here)
\* until a check-in and a check-out
NoPresensi ==
  [JamMasuk |-> ZeroTime, JamKeluar |-> ZeroTime, Status |-> "izin",
   Keterangan |-> "", UpdatedAt |-> ZeroTime]

\* NewPresensi(status, keterangan) at time t
NewPresensi(status, keterangan, t) ==
  IF status \notin StatusPresensi
  THEN [rec |-> NoPresensi, err |-> ErrInvalidStatus]
  ELSE [rec |-> [JamMasuk |-> IF status \in {"hadir", "terlambat"} THEN t ELSE ZeroTime,
                 JamKeluar |-> ZeroTime, Status |-> status,
                 Keterangan |-> keterangan, UpdatedAt |-> t],
        err |-> "nil"]

\* the body of an update request: "" for a field left out
NoInput == [Status |-> "", Keterangan |-> ""]

IdleCheckIn ==
  [pc |-> "idle", op |-> "", coord |-> [lat |-> 0, lon |-> 0], input |-> NoInput,
   copy |-> NoPresensi, status |-> 0, err |-> "", stored |-> FALSE]

\* Presensi.CheckIn at time t: the record afterwards and the error returned
PresensiCheckInAgain(rec, t) ==
  [rec |-> [rec EXCEPT !.JamMasuk = t, !.UpdatedAt = t], err |-> "nil"]

PresensiCheckIn(rec, t) ==
  IF rec.JamMasuk # ZeroTime
  THEN [rec |-> rec, err |-> ErrAlreadyCheckedIn]
  ELSE [rec |-> [rec EXCEPT !.JamMasuk = t, !.UpdatedAt = t], err |-> "nil"]

\* Presensi.CheckOut at time t
PresensiCheckOut(rec, t) ==
  IF rec.JamMasuk = ZeroTime
  THEN [rec |-> rec, err |-> ErrNotCheckedIn]
  ELSE IF rec.JamKeluar # ZeroTime
  THEN [rec |-> rec, err |-> ErrAlreadyCheckedOut]
  ELSE [rec |-> [rec EXCEPT !.JamKeluar = t, !.UpdatedAt = t], err |-> "nil"]

\* Presensi.UpdateStatus at time t
UpdateStatus(rec, status, t) ==
  IF status \notin StatusPresensi
  THEN [rec |-> rec, err |-> ErrInvalidStatus]
  ELSE [rec |-> [rec EXCEPT !.Status = status, !.UpdatedAt = t], err |-> "nil"]

\* Presensi.UpdateKeterangan at time t
UpdateKeterangan(rec, keterangan, t) ==
  [rec EXCEPT !.Keterangan = keterangan, !.UpdatedAt = t]

\* presensiUseCase.Update on the record read, at time t
UseCaseUpdate(rec, input, t) ==
  LET s == IF input.Status # "" THEN UpdateStatus(rec, input.Status, t)
           ELSE [rec |-> rec, err |-> "nil"]
  IN  IF s.err # "nil" THEN s
      ELSE IF input.Keterangan # ""
      THEN [rec |-> UpdateKeterangan(s.rec, input.Keterangan, t), err |-> "nil"]
      ELSE s

\* ---------------------------------------------------------- AuditMiddleware
\* A context.Context: the values it carries by key.  A key is a Go value, its
\* type with it: contextKey("user_id") and the string "user_id" are two keys.
Key(type, name) == [type |-> type, name |-> name]

Background == [k \in {} |-> ""]

WithValue(ctx, key, val) ==
  [k \in DOMAIN ctx \cup {key} |-> IF k = key THEN val ELSE ctx[k]]

\* ctx.Value(key); "<nil>" for nil
Value(ctx, key) == IF key \in DOMAIN ctx THEN ctx[key] ELSE "<nil>"

UserIDKey == Key("contextKey", "user_id")
EmailKey == Key("contextKey", "email")
RoleKey == Key("contextKey", "role")
ContextKeyRequestID == Key("AuditContextKey", "request_id")
ContextKeyRequestBody == Key("AuditContextKey", "request_body")

\* the context of the request Audit hands to next, which is also the context
\* of the request createAuditLog is given
AuditContext ==
  WithValue(WithValue(Background, ContextKeyRequestID, "id"), ContextKeyRequestBody, "")

\* the context of the request Authenticate hands to next: r.WithContext(ctx) is
\* another request, the one Audit holds keeps its context
AuthenticateContext(ctx, claims) ==
  WithValue(WithValue(WithValue(ctx, UserIDKey, claims.UserID),
                      EmailKey, claims.Email),
            RoleKey, claims.Role)

getUserFromContext(ctx) ==
  [userID |-> IF Value(ctx, Key("string", "user_id")) # "<nil>"
              THEN Value(ctx, Key("string", "user_id")) ELSE "",
   userName |-> IF Value(ctx, Key("string", "user_name")) # "<nil>"
                THEN Value(ctx, Key("string", "user_name")) ELSE "",
   userRole |-> IF Value(ctx, Key("string", "user_role")) # "<nil>"
                THEN Value(ctx, Key("string", "user_role")) ELSE ""]

Methods == {"GET", "POST", "PUT", "PATCH", "DELETE"}

determineAction(method) ==
  CASE method = "POST" -> "create"
    [] method \in {"PUT", "PATCH"} -> "update"
    [] method = "DELETE" -> "delete"
    [] OTHER -> ""

NoAudit ==
  [made |-> FALSE, Action |-> "", UserID |-> "", UserRole |-> "", StatusCode |-> 0,
   passed |-> FALSE, attached |-> Background]

\* requests followed through getIP
MaxRequests == 2

\* documents the users collection is let grow to
MaxDocs == 3

NoRegister == [pc |-> "idle", Email |-> "", err |-> "", token |-> FALSE]

NoAnswers ==
  [made |-> FALSE, ok |-> FALSE, okNever |-> FALSE, created |-> FALSE,
   createdNever |-> FALSE]

\* no audit log entry written, no admission check compared
AuditIdle ==
  /\ audit = NoAudit
  /\ never = [r \in Registries |-> [visitors |-> [k \in Keys |-> NoVisitor],
                                     limiters |-> [i \in LimIds |-> NoLimiter]]]
  /\ answers = NoAnswers
  /\ collection = << >>
  /\ register = [p \in Procs |-> NoRegister]
  /\ charged = << >>

\* the registries as main configures them
RestIdle ==
  /\ config = [r \in Registries |-> MainConfig(r)]
  /\ AuditIdle

GeoIdle ==
  /\ geo = NoGeo
  /\ call = NoCall
  /\ near = NoNear
  /\ presensi = NoPresensi
  /\ ci = [p \in Procs |-> IdleCheckIn]

\* ------------------------------------------------------------ bookkeeping
\* checks counts the admission checks of a limiter that is never refilled
NoHist == [fresh |-> FALSE, served |-> 0, burstAt |-> ZeroTime, extra |-> 0,
           checks |-> 0]

Stages == {"global", "login"}

\* where a request stands between getVisitor and Allow of a stage
AllowPc(stage) == IF stage = "global" THEN "global_allow" ELSE "login_allow"

\* the limiters of a registry that requests hold between getVisitor and Allow
Held(reg, rqs) ==
  {rqs[p].lim : p \in {q \in Procs : \E st \in Stages :
                                        rqs[q].pc = AllowPc(st) /\ LimiterOf(st) = reg}}

InMap(vis) == {vis[k].limiter : k \in Keys} \ {0}

\* a limiter neither in the map nor held by a request is garbage
Collect(lims, vis, reg, rqs) ==
  [i \in LimIds |-> IF i \in InMap(vis) \cup Held(reg, rqs) THEN lims[i] ELSE NoLimiter]

CollectHist(h, vis, reg, rqs) ==
  [i \in LimIds |-> IF i \in InMap(vis) \cup Held(reg, rqs) THEN h[i] ELSE NoHist]

\* what one Allow adds to a limiter's history
Checked(reg, h) ==
  IF Config(reg).RequestsPerSecond = 0
  THEN [h EXCEPT !.checks = Min(@ + 1, Config(reg).BurstSize + 1)]
  ELSE h

Served(reg, h, ok) ==
  IF ~ok THEN Checked(reg, h)
  ELSE IF h.burstAt # ZeroTime
       THEN [Checked(reg, h) EXCEPT !.served = Min(@ + 1, Config(reg).BurstSize + 1),
                                    !.extra = @ + 1]
  ELSE IF h.served + 1 = Config(reg).BurstSize
       THEN [Checked(reg, h) EXCEPT !.served = @ + 1, !.burstAt = now]
  ELSE [Checked(reg, h) EXCEPT !.served = Min(@ + 1, Config(reg).BurstSize + 1)]

\* the history that survives a tick to time t: a burst is followed for less
\* than two refill periods
Aged(reg, h, t) ==
  IF h.burstAt # ZeroTime /\ (t - h.burstAt) * Config(reg).RequestsPerSecond < 2 * TokenScale
  THEN [h EXCEPT !.fresh = FALSE, !.served = 0]
  ELSE [NoHist EXCEPT !.checks = h.checks]

\* ---------------------------------------------------------------- state
\* the state after main: both registries constructed, their sweeps asleep
Init ==
  /\ now = 0
  /\ visitors = [r \in Registries |-> [k \in Keys |-> NoVisitor]]
  /\ limiters = [r \in Registries |-> [i \in LimIds |-> NoLimiter]]
  /\ sweep = [r \in Registries |-> "sleep"]
  /\ req = [p \in Procs |-> IdleReq]
  /\ users = [u \in Users |-> "active"]
  /\ issued = {}
  /\ hist = [r \in Registries |-> [i \in LimIds |-> NoHist]]
  /\ swept = [r \in Registries |-> FALSE]
  /\ GeoIdle
  /\ RestIdle

\* the clock advances
Tick ==
  /\ now < MaxTime
  /\ now' = now + 1
  /\ hist' = [r \in Registries |-> [i \in LimIds |-> Aged(r, hist[r][i], now + 1)]]
  /\ swept' = [r \in Registries |-> FALSE]
  /\ UNCHANGED <<visitors, limiters, sweep, req, users, issued, geoVars, restVars>>

\* Limit of a stage, first half: rl.getVisitor(getIP(r)) under rl.mu
EnterLimit(p, stage, rq) ==
  LET reg == LimiterOf(stage)
      g == getVisitor(visitors[reg], limiters[reg], rq.key, now)
      created == ~limiters[reg][g.limiter].live
      rqs == [req EXCEPT ![p] = [rq EXCEPT !.pc = AllowPc(stage), !.lim = g.limiter]]
      h == IF created
           THEN [hist[reg] EXCEPT ![g.limiter] = [NoHist EXCEPT !.fresh = TRUE]]
           ELSE hist[reg]
  IN  /\ sweep[reg] # "off"
      /\ visitors' = [visitors EXCEPT ![reg] = g.visitors]
      /\ limiters' = [limiters EXCEPT ![reg] = Collect(g.limiters, g.visitors, reg, rqs)]
      /\ hist' = [hist EXCEPT ![reg] = CollectHist(h, g.visitors, reg, rqs)]
      /\ req' = rqs
      /\ UNCHANGED <<now, sweep, users, issued, swept, geoVars, restVars>>

\* Limit of a stage, second half: limiter.Allow() and the answer
LeaveLimit(p, stage) ==
  LET reg == LimiterOf(stage)
      id == req[p].lim
      r == Allow(reg, limiters[reg][id], now)
      rqs == [req EXCEPT ![p] = Limit(req[p], stage, r.ok)]
  IN  /\ req[p].pc = AllowPc(stage)
      /\ limiters' = [limiters EXCEPT
                        ![reg] = Collect([@ EXCEPT ![id] = r.lim], visitors[reg], reg, rqs)]
      /\ hist' = [hist EXCEPT
                    ![reg] = CollectHist([@ EXCEPT ![id] = Served(reg, @, r.ok)],
                                         visitors[reg], reg, rqs)]
      /\ req' = rqs
      /\ UNCHANGED <<now, visitors, sweep, users, issued, swept, geoVars, restVars>>

\* the goroutine is free to take a request
Free(p) == req[p].pc \in {"idle", "done"}

LoginsInFlight ==
  Cardinality({q \in Procs : req[q].route = "login" /\ req[q].pwOk /\ req[q].pc # "done"})

\* a request arrives at the router and enters the global limiter; a user logs
\* in with the right password once
Begin(p) ==
  /\ Free(p)
  /\ \E key \in RouterKeys, route \in Routes, tok \in issued \cup {NoToken},
        user \in Users \cup {""}, pwOk \in BOOLEAN :
       /\ route \notin {"protected", "admin"} => tok = NoToken
       /\ (route = "login") = (user # "")
       /\ route # "login" => ~pwOk
       /\ pwOk => LoginsInFlight = 0 /\ \A t \in issued : t.sub # user
       /\ EnterLimit(p, "global",
                     [IdleReq EXCEPT !.key = key, !.route = route, !.tok = tok,
                                     !.user = user, !.pwOk = pwOk])

\* a request enters the Limit middleware of one registry, with a plain handler
\* behind it
Admit(p) ==
  /\ Free(p)
  /\ \E stage \in Stages, key \in Keys :
       EnterLimit(p, stage, [IdleReq EXCEPT !.key = key, !.route = "public"])

GlobalAllow(p) == LeaveLimit(p, "global")

LoginVisitor(p) ==
  /\ req[p].pc = "login_visitor"
  /\ EnterLimit(p, "login", req[p])

LoginAllow(p) == LeaveLimit(p, "login")

AuthenticateStep(p) ==
  /\ req[p].pc = "authenticate"
  /\ req' = [req EXCEPT ![p] = Authenticate(req[p], now, users)]
  /\ UNCHANGED <<now, visitors, limiters, sweep, users, issued, hist, swept, geoVars, restVars>>

RequireRoleStep(p) ==
  /\ req[p].pc = "require_role"
  /\ req' = [req EXCEPT ![p] = RequireRole(req[p], RequiredRoles)]
  /\ UNCHANGED <<now, visitors, limiters, sweep, users, issued, hist, swept, geoVars, restVars>>

\* a request with a bearer token enters the Authenticate middleware, with a
\* plain handler behind it
Present(p) ==
  /\ Free(p)
  /\ \E tok \in issued \cup {NoToken} :
       req' = [req EXCEPT ![p] = [IdleReq EXCEPT !.pc = "authenticate",
                                                 !.route = "protected", !.tok = tok]]
  /\ UNCHANGED <<now, visitors, limiters, sweep, users, issued, hist, swept, geoVars, restVars>>

\* a request with any Authorization header enters the Authenticate middleware
\* of a protected or an admin route
PresentAny(p) ==
  /\ Free(p)
  /\ \E tok \in Presentable, route \in {"protected", "admin"} :
       req' = [req EXCEPT ![p] = [IdleReq EXCEPT !.pc = "authenticate",
                                                 !.route = route, !.tok = tok]]
  /\ UNCHANGED <<now, visitors, limiters, sweep, users, issued, hist, swept, geoVars, restVars>>

\* a handler other than Login
Handle(p) ==
  /\ req[p].pc = "handler"
  /\ req[p].route # "login"
  /\ req' = [req EXCEPT ![p] = Answer(@, "handler", StatusOK, "")]
  /\ UNCHANGED <<now, visitors, limiters, sweep, users, issued, hist, swept, geoVars, restVars>>

\* authUseCase.Login up to the first clock reading of GenerateToken (ExpiresAt)
LoginUseCaseOf(rq, store, t) ==
  IF store[rq.user] = "deleted" \/ ~rq.pwOk
  THEN Answer(rq, "handler", StatusUnauthorized, "email atau password salah")
  ELSE IF store[rq.user] # "active"
  THEN Answer(rq, "handler", StatusForbidden, "user tidak aktif")
  ELSE [rq EXCEPT !.pc = "gen_iat", !.trace = Append(@, "handler"), !.exp = t]

\* AuthHandler.Login behind the limiters
LoginUseCase(p) ==
  /\ req[p].pc = "handler"
  /\ req[p].route = "login"
  /\ req' = [req EXCEPT ![p] = LoginUseCaseOf(req[p], users, now)]
  /\ UNCHANGED <<now, visitors, limiters, sweep, users, issued, hist, swept, geoVars, restVars>>

\* AuthHandler.Login called directly
Login(p) ==
  /\ Free(p)
  /\ \E user \in Users, pwOk \in BOOLEAN :
       /\ pwOk => Cardinality(issued) + LoginsInFlight < MaxTokens
       /\ req' = [req EXCEPT ![p] =
                    LoginUseCaseOf([IdleReq EXCEPT !.route = "login", !.user = user,
                                                   !.pwOk = pwOk], users, now)]
  /\ UNCHANGED <<now, visitors, limiters, sweep, users, issued, hist, swept, geoVars, restVars>>

\* GenerateToken, second clock reading (IssuedAt)
GenIssuedAt(p) ==
  /\ req[p].pc = "gen_iat"
  /\ req' = [req EXCEPT ![p].pc = "gen_nbf", ![p].iat = now]
  /\ UNCHANGED <<now, visitors, limiters, sweep, users, issued, hist, swept, geoVars, restVars>>

\* GenerateToken, third clock reading (NotBefore), signature and the answer
GenNotBefore(p) ==
  LET u == req[p].user
      tok == GenerateToken(u, EmailOf(u), RoleOf(u), req[p].exp, req[p].iat, now)
  IN  /\ req[p].pc = "gen_nbf"
      /\ issued' = issued \cup {tok}
      /\ req' = [req EXCEPT ![p] = [Answer(@, "token", StatusOK, "") EXCEPT !.tok = tok]]
      /\ UNCHANGED <<now, visitors, limiters, sweep, users, hist, swept, geoVars, restVars>>

\* one iteration of the cleanupVisitors loop after its sleep: rl.mu is taken,
\* the stale entries are deleted, rl.mu is released
Sweep(reg) ==
  LET vis == cleanupVisitors(reg, visitors[reg], now)
  IN  /\ sweep[reg] = "sleep"
      /\ visitors' = [visitors EXCEPT ![reg] = vis]
      /\ limiters' = [limiters EXCEPT ![reg] = Collect(@, vis, reg, req)]
      /\ hist' = [hist EXCEPT ![reg] = CollectHist(@, vis, reg, req)]
      /\ swept' = [swept EXCEPT ![reg] = TRUE]
      /\ UNCHANGED <<now, sweep, req, users, issued, geoVars, restVars>>

\* the request went through Authenticate and on to next
PassedAuthenticate(rq) ==
  /\ rq.trace # << >>
  /\ rq.trace[1] = "authenticate"
  /\ ~(Len(rq.trace) = 1 /\ rq.status = StatusUnauthorized)

\* AuditMiddleware.Audit after next.ServeHTTP returned: createAuditLog for a
\* request of a method that writes.  The entry is built from the request Audit
\* handed to next; passed and attached record what Authenticate did inside.
CreateAuditLog(p) ==
  /\ req[p].pc = "done"
  /\ \E method \in Methods :
       LET u == getUserFromContext(AuditContext)
       IN  /\ determineAction(method) # ""
           /\ audit' = [made |-> TRUE, Action |-> determineAction(method),
                        UserID |-> u.userID, UserRole |-> u.userRole,
                        StatusCode |-> req[p].status,
                        passed |-> PassedAuthenticate(req[p]),
                        attached |-> IF PassedAuthenticate(req[p])
                                     THEN AuthenticateContext(AuditContext,
                                                              ClaimsOf(req[p].tok))
                                     ELSE AuditContext]
  /\ req' = [req EXCEPT ![p] = IdleReq]
  /\ UNCHANGED <<now, visitors, limiters, sweep, users, issued, hist, swept, geoVars,
                 config, never, answers, collection, register, charged>>

\* rl.mu, step by step.  A request is at rl.mu.Lock() of getVisitor, then in
\* getVisitor holding rl.mu; the cleanupVisitors goroutine sleeps, is at
\* rl.mu.Lock(), then holds rl.mu over its pass.
VisitorPc(stage) == IF stage = "global" THEN "global_visitor" ELSE "login_visitor"

LockedPc(stage) == IF stage = "global" THEN "global_locked" ELSE "login_locked"

\* nobody holds rl.mu of the registry
MuFree(reg) ==
  /\ sweep[reg] \notin {"locked", "panicked"}
  /\ \A p \in Procs, stage \in Stages :
       LimiterOf(stage) = reg => req[p].pc # LockedPc(stage)

\* a panic nobody recovers ends the process, every goroutine with it
Crashed == \E reg \in Registries : sweep[reg] = "panicked"

\* a request enters the Limit middleware of a registry and calls getVisitor
Arrive(p) ==
  /\ ~Crashed
  /\ Free(p)
  /\ \E stage \in Stages, key \in RouterKeys :
       /\ sweep[LimiterOf(stage)] # "off"
       /\ req' = [req EXCEPT ![p] = [IdleReq EXCEPT !.key = key, !.route = "public",
                                                    !.pc = VisitorPc(stage)]]
  /\ UNCHANGED <<now, visitors, limiters, sweep, users, issued, hist, swept, geoVars, restVars>>

\* getVisitor: rl.mu.Lock() returns
MuLock(p) ==
  /\ ~Crashed
  /\ \E stage \in Stages :
       /\ req[p].pc = VisitorPc(stage)
       /\ MuFree(LimiterOf(stage))
       /\ req' = [req EXCEPT ![p].pc = LockedPc(stage)]
  /\ UNCHANGED <<now, visitors, limiters, sweep, users, issued, hist, swept, geoVars, restVars>>

\* getVisitor under rl.mu, up to the deferred rl.mu.Unlock()
GetVisitorLocked(p) ==
  /\ ~Crashed
  /\ \E stage \in Stages :
       /\ req[p].pc = LockedPc(stage)
       /\ EnterLimit(p, stage, req[p])

\* limiter.Allow() and the answer, outside rl.mu
AllowUnlocked(p) ==
  /\ ~Crashed
  /\ \E stage \in Stages : LeaveLimit(p, stage)

\* the handler behind the middleware
HandleUnlocked(p) ==
  /\ ~Crashed
  /\ Handle(p)

\* cleanupVisitors: time.Sleep(CleanupInterval) returns
SweepWake(reg) ==
  /\ ~Crashed
  /\ sweep[reg] = "sleep"
  /\ sweep' = [sweep EXCEPT ![reg] = "lock"]
  /\ UNCHANGED <<now, visitors, limiters, req, users, issued, hist, swept, geoVars, restVars>>

\* cleanupVisitors: rl.mu.Lock() returns
SweepLock(reg) ==
  /\ ~Crashed
  /\ sweep[reg] = "lock"
  /\ MuFree(reg)
  /\ sweep' = [sweep EXCEPT ![reg] = "locked"]
  /\ UNCHANGED <<now, visitors, limiters, req, users, issued, hist, swept, geoVars, restVars>>

\* cleanupVisitors: the range over rl.visitors, then rl.mu.Unlock() and the
\* next time.Sleep
SweepPassKeepsLock(reg) ==
  LET vis == cleanupVisitors(reg, visitors[reg], now)
  IN  /\ ~Crashed
      /\ sweep[reg] = "locked"
      /\ visitors' = [visitors EXCEPT ![reg] = vis]
      /\ limiters' = [limiters EXCEPT ![reg] = Collect(@, vis, reg, req)]
      /\ hist' = [hist EXCEPT ![reg] = CollectHist(@, vis, reg, req)]
      /\ swept' = [swept EXCEPT ![reg] = TRUE]
      /\ UNCHANGED <<now, sweep, req, users, issued, geoVars, restVars>>

SweepPass(reg) ==
  LET vis == cleanupVisitors(reg, visitors[reg], now)
  IN  /\ ~Crashed
      /\ sweep[reg] = "locked"
      /\ visitors' = [visitors EXCEPT ![reg] = vis]
      /\ limiters' = [limiters EXCEPT ![reg] = Collect(@, vis, reg, req)]
      /\ hist' = [hist EXCEPT ![reg] = CollectHist(@, vis, reg, req)]
      /\ swept' = [swept EXCEPT ![reg] = TRUE]
      /\ sweep' = [sweep EXCEPT ![reg] = "sleep"]
      /\ UNCHANGED <<now, req, users, issued, geoVars, restVars>>

\* cleanupVisitors panics inside its pass: rl.mu.Unlock() is not deferred, so
\* rl.mu stays locked; the goroutine started by NewRateLimiter recovers
\* nothing, so the panic ends the process.
SweepPanic(reg) ==
  /\ ~Crashed
  /\ sweep[reg] = "locked"
  /\ sweep' = [sweep EXCEPT ![reg] = "panicked"]
  /\ UNCHANGED <<now, visitors, limiters, req, users, issued, hist, swept, geoVars, restVars>>

\* seconds an empty bucket of the registry takes to fill
RefillTime(reg) ==
  (Config(reg).BurstSize * TokenScale) \div Config(reg).RequestsPerSecond

\* The instants followed under the shipped configurations: the seconds in which
\* a bucket fills, and the same seconds one and two MaxAge later.
Instants(reg) ==
  {t \in 0..(2 * Config(reg).MaxAge + RefillTime(reg) + 1) :
     t % Config(reg).MaxAge <= RefillTime(reg) + 1}

\* the clock advances to a later instant
Wait ==
  /\ \E reg \in Registries :
       /\ sweep[reg] # "off"
       /\ \E t \in Instants(reg) :
            /\ t > now
            /\ now' = t
  /\ UNCHANGED <<visitors, limiters, sweep, req, users, issued, hist, swept, geoVars,
                 restVars>>

\* Limit served in one piece: getVisitor, then limiter.Allow().  The same check
\* is made on the registry that never evicts.
Check(reg) ==
  /\ sweep[reg] # "off"
  /\ \E key \in RouterKeys :
       LET g == getVisitor(visitors[reg], limiters[reg], key, now)
           r == Allow(reg, g.limiters[g.limiter], now)
           gn == getVisitor(never[reg].visitors, never[reg].limiters, key, now)
           rn == Allow(reg, gn.limiters[gn.limiter], now)
       IN  /\ visitors' = [visitors EXCEPT ![reg] = g.visitors]
           /\ limiters' = [limiters EXCEPT
                             ![reg] = Collect([g.limiters EXCEPT ![g.limiter] = r.lim],
                                              g.visitors, reg, req)]
           /\ never' = [never EXCEPT
                          ![reg] = [visitors |-> gn.visitors,
                                    limiters |-> [gn.limiters EXCEPT ![gn.limiter] = rn.lim]]]
           /\ answers' = [made |-> TRUE, ok |-> r.ok, okNever |-> rn.ok,
                          created |-> visitors[reg][key].limiter = 0,
                          createdNever |-> never[reg].visitors[key].limiter = 0]
  /\ UNCHANGED <<now, sweep, req, users, issued, hist, swept, geoVars, config, audit,
                 collection, register, charged>>

\* -------------------------------------------------------------------- getIP
\* addresses and source ports of connections, and values of the two headers
\* ("" for a header that is absent)
Addrs == {"10.0.0.1", "10.0.0.2"}
Ports == {"50000", "50001"}
HeaderValues == {"", "10.0.0.9"}

\* http.Request.RemoteAddr as the server sets it: "IP:port"
RemoteAddr(ip, port) == <<ip, ":", port>>

HttpRequests ==
  [ip : Addrs, port : Ports, XForwardedFor : HeaderValues, XRealIP : HeaderValues]

\* getIP(r): the client key of a request
getIP(r) ==
  IF r.XForwardedFor # "" THEN <<r.XForwardedFor>>
  ELSE IF r.XRealIP # "" THEN <<r.XRealIP>>
  ELSE RemoteAddr(r.ip, r.port)

\* Limit keys a request: ip := getIP(r), the key of rl.getVisitor
LimitGetIP ==
  /\ Len(charged) < MaxRequests
  /\ \E r \in HttpRequests :
       charged' = Append(charged, [r |-> r, key |-> getIP(r)])
  /\ UNCHANGED <<now, visitors, limiters, sweep, req, users, issued, hist, swept,
                 geoVars, config, audit, never, answers, collection, register>>

\* ----------------------------------------------------- authUseCase.Register
ErrEmailAlreadyExists == "email sudah terdaftar"
ErrInvalidEmail == "email tidak valid"

Emails == {"", "a@x", "b@x"}

\* UserRepository.GetByEmail: FindOne by email, nil when no document matches
GetByEmail(coll, email) ==
  IF \E i \in 1..Len(coll) : coll[i].email = email
  THEN coll[CHOOSE i \in 1..Len(coll) : coll[i].email = email]
  ELSE [id |-> 0, email |-> ""]

\* UserRepository.Create: InsertOne gives the document a new _id; the
\* collection has no index on email
Create(coll, email) ==
  Append(coll, [id |-> Len(coll) + 1, email |-> email])

\* Register up to the test of existingUser
RegisterGetByEmail(p) ==
  /\ register[p].pc = "idle"
  /\ Len(collection) + Cardinality({q \in Procs : register[q].pc = "create"}) < MaxDocs
  /\ \E email \in Emails :
       register' = [register EXCEPT ![p] =
         IF GetByEmail(collection, email).id # 0
         THEN [pc |-> "done", Email |-> email, err |-> ErrEmailAlreadyExists,
               token |-> FALSE]
         ELSE [pc |-> "create", Email |-> email, err |-> "", token |-> FALSE]]
  /\ UNCHANGED <<now, visitors, limiters, sweep, req, users, issued, hist, swept,
                 geoVars, config, audit, never, answers, collection, charged>>

\* Register from entity.NewUser on: userRepo.Create and GenerateToken
RegisterCreate(p) ==
  /\ register[p].pc = "create"
  /\ IF register[p].Email = ""
     THEN /\ register' = [register EXCEPT ![p].pc = "done", ![p].err = ErrInvalidEmail]
          /\ UNCHANGED collection
     ELSE /\ collection' = Create(collection, register[p].Email)
          /\ register' = [register EXCEPT ![p].pc = "done", ![p].token = TRUE]
  /\ UNCHANGED <<now, visitors, limiters, sweep, req, users, issued, hist, swept,
                 geoVars, config, audit, never, answers, charged>>

\* the handler has written the response of Register
RegisterReturn(p) ==
  /\ register[p].pc = "done"
  /\ register' = [register EXCEPT ![p] = NoRegister]
  /\ UNCHANGED <<now, visitors, limiters, sweep, req, users, issued, hist, swept,
                 geoVars, config, audit, never, answers, collection, charged>>

\* User.Deactivate and UserRepository.Update
DeactivateUser(u) ==
  /\ users[u] = "active"
  /\ users' = [users EXCEPT ![u] = "inactive"]
  /\ UNCHANGED <<now, visitors, limiters, sweep, req, issued, hist, swept, geoVars, restVars>>

\* UserRepository.Delete
DeleteUser(u) ==
  /\ users[u] # "deleted"
  /\ users' = [users EXCEPT ![u] = "deleted"]
  /\ UNCHANGED <<now, visitors, limiters, sweep, req, issued, hist, swept, geoVars, restVars>>

\* a call of LocationService.ValidateCheckInLocation with a coordinate
ValidateCheckIn ==
  /\ \E c \in Coords :
       LET r == ValidateCheckInLocation(geo, c.lat, c.lon)
       IN  call' = [made |-> TRUE, lat |-> c.lat, lon |-> c.lon,
                    fetched |-> r.fetched, err |-> r.err]
  /\ near' = NoNear
  /\ UNCHANGED <<now, visitors, limiters, sweep, req, users, issued, hist, swept,
                 geo, presensi, ci, restVars>>

\* a call of LocationService.GetNearestLocation with a coordinate
NearestLocation ==
  /\ \E c \in Coords :
       LET r == GetNearestLocation(geo, c.lat, c.lon)
       IN  near' = [made |-> TRUE, lat |-> c.lat, lon |-> c.lon,
                    nearest |-> r.nearest, distance |-> r.distance, err |-> r.err]
  /\ call' = NoCall
  /\ UNCHANGED <<now, visitors, limiters, sweep, req, users, issued, hist, swept,
                 geo, presensi, ci, restVars>>

\* where the client of a check-in can be; its place is followed only where a
\* geofence is enabled
Places == IF geo.enabled THEN Coords ELSE {[lat |-> 0, lon |-> 0]}

\* PresensiHandler.CheckIn and presensiUseCase.CheckIn up to repo.GetByID: the
\* request names the record; the coordinate the client is at is no part of it
CheckInGetByID(p) ==
  /\ ci[p].pc \in {"idle", "done"}
  /\ \E c \in Places :
       ci' = [ci EXCEPT ![p] = [IdleCheckIn EXCEPT !.pc = "loaded", !.op = "checkin",
                                                   !.coord = c, !.copy = presensi]]
  /\ UNCHANGED <<now, visitors, limiters, sweep, req, users, issued, hist, swept,
                 geo, call, near, presensi, restVars>>

\* presensiUseCase.CheckIn: presensi.CheckIn() on the record read; its error is
\* answered 400
CheckInEntity(p) ==
  LET r == PresensiCheckIn(ci[p].copy, now)
  IN  /\ ci[p].pc = "loaded"
      /\ ci' = [ci EXCEPT ![p] =
                  IF r.err # "nil"
                  THEN [@ EXCEPT !.pc = "done", !.status = StatusBadRequest, !.err = r.err]
                  ELSE [@ EXCEPT !.pc = "update", !.copy = r.rec]]
      /\ UNCHANGED <<now, visitors, limiters, sweep, req, users, issued, hist, swept,
                     geo, call, near, presensi, restVars>>

\* presensiUseCase.CheckIn: repo.Update writes the record, the answer is 200
CheckInUpdate(p) ==
  /\ ci[p].pc = "update"
  /\ presensi' = [ci[p].copy EXCEPT !.UpdatedAt = now]
  /\ ci' = [ci EXCEPT ![p] = [@ EXCEPT !.pc = "done", !.status = StatusOK,
                                       !.stored = TRUE]]
  /\ UNCHANGED <<now, visitors, limiters, sweep, req, users, issued, hist, swept,
                 geo, call, near, restVars>>

\* PresensiHandler.CheckOut and presensiUseCase.CheckOut up to repo.GetByID
CheckOutGetByID(p) ==
  /\ ci[p].pc \in {"idle", "done"}
  /\ ci' = [ci EXCEPT ![p] = [IdleCheckIn EXCEPT !.pc = "loaded_out", !.op = "checkout",
                                                 !.copy = presensi]]
  /\ UNCHANGED <<now, visitors, limiters, sweep, req, users, issued, hist, swept,
                 geo, call, near, presensi, restVars>>

\* presensiUseCase.CheckOut: presensi.CheckOut() on the record read; its error
\* is answered 400
CheckOutEntity(p) ==
  LET r == PresensiCheckOut(ci[p].copy, now)
  IN  /\ ci[p].pc = "loaded_out"
      /\ ci' = [ci EXCEPT ![p] =
                  IF r.err # "nil"
                  THEN [@ EXCEPT !.pc = "done", !.status = StatusBadRequest, !.err = r.err]
                  ELSE [@ EXCEPT !.pc = "update_out", !.copy = r.rec]]
      /\ UNCHANGED <<now, visitors, limiters, sweep, req, users, issued, hist, swept,
                     geo, call, near, presensi, restVars>>

\* presensiUseCase.CheckOut: repo.Update writes the record, the answer is 200
CheckOutUpdate(p) ==
  /\ ci[p].pc = "update_out"
  /\ presensi' = [ci[p].copy EXCEPT !.UpdatedAt = now]
  /\ ci' = [ci EXCEPT ![p] = [@ EXCEPT !.pc = "done", !.status = StatusOK,
                                       !.stored = TRUE]]
  /\ UNCHANGED <<now, visitors, limiters, sweep, req, users, issued, hist, swept,
                 geo, call, near, restVars>>

\* the bodies of the update requests
Inputs == [Status : {"", "hadir", "sakit", "cuti"}, Keterangan : {"", "dinas"}]

\* PresensiHandler.Update and presensiUseCase.Update up to repo.GetByID
UpdateGetByID(p) ==
  /\ ci[p].pc \in {"idle", "done"}
  /\ \E input \in Inputs :
       ci' = [ci EXCEPT ![p] = [IdleCheckIn EXCEPT !.pc = "loaded_upd", !.op = "update",
                                                   !.input = input, !.copy = presensi]]
  /\ UNCHANGED <<now, visitors, limiters, sweep, req, users, issued, hist, swept,
                 geo, call, near, presensi, restVars>>

\* presensiUseCase.Update: UpdateStatus and UpdateKeterangan on the record read;
\* the error of UpdateStatus is answered 500
UpdateEntity(p) ==
  LET r == UseCaseUpdate(ci[p].copy, ci[p].input, now)
  IN  /\ ci[p].pc = "loaded_upd"
      /\ ci' = [ci EXCEPT ![p] =
                  IF r.err # "nil"
                  THEN [@ EXCEPT !.pc = "done", !.status = StatusInternalServerError,
                                 !.err = r.err]
                  ELSE [@ EXCEPT !.pc = "update_upd", !.copy = r.rec]]
      /\ UNCHANGED <<now, visitors, limiters, sweep, req, users, issued, hist, swept,
                     geo, call, near, presensi, restVars>>

\* presensiUseCase.Update: repo.Update writes the record, the answer is 200
UpdateUpdate(p) ==
  /\ ci[p].pc = "update_upd"
  /\ presensi' = [ci[p].copy EXCEPT !.UpdatedAt = now]
  /\ ci' = [ci EXCEPT ![p] = [@ EXCEPT !.pc = "done", !.status = StatusOK,
                                       !.stored = TRUE]]
  /\ UNCHANGED <<now, visitors, limiters, sweep, req, users, issued, hist, swept,
                 geo, call, near, restVars>>

\* ------------------------------------------------------- specifications
\* The service as main builds it: every request goes through NewRouter's chain.
\* Requests are served one after the other here and the user store is left
\* alone; goroutines run concurrently in SpecRegistry and SpecAuth, and users
\* are deactivated and deleted in SpecAuth.
Next ==
  \/ Tick
  \/ \E p \in RouterProcs : Begin(p)
  \/ \E p \in RouterProcs : GlobalAllow(p)
  \/ \E p \in RouterProcs : LoginVisitor(p)
  \/ \E p \in RouterProcs : LoginAllow(p)
  \/ \E p \in RouterProcs : AuthenticateStep(p)
  \/ \E p \in RouterProcs : RequireRoleStep(p)
  \/ \E p \in RouterProcs : Handle(p)
  \/ \E p \in RouterProcs : LoginUseCase(p)
  \/ \E p \in RouterProcs : GenIssuedAt(p)
  \/ \E p \in RouterProcs : GenNotBefore(p)
  \/ \E reg \in Registries : Sweep(reg)

Spec == Init /\ [][Next]_vars

\* One RateLimiter, built by NewRateLimiter with either configuration, and the
\* requests that go through its Limit middleware.
InitRegistry ==
  /\ now = 0
  /\ visitors = [r \in Registries |-> [k \in Keys |-> NoVisitor]]
  /\ limiters = [r \in Registries |-> [i \in LimIds |-> NoLimiter]]
  /\ \E built \in Registries :
       sweep = [r \in Registries |-> IF r = built THEN "sleep" ELSE "off"]
  /\ req = [p \in Procs |-> IdleReq]
  /\ users = [u \in Users |-> "active"]
  /\ issued = {}
  /\ hist = [r \in Registries |-> [i \in LimIds |-> NoHist]]
  /\ swept = [r \in Registries |-> FALSE]
  /\ GeoIdle
  /\ RestIdle

NextRegistry ==
  \/ Tick
  \/ \E p \in Procs : Admit(p)
  \/ \E p \in Procs : GlobalAllow(p)
  \/ \E p \in Procs : LoginAllow(p)
  \/ \E p \in Procs : Handle(p)
  \/ \E reg \in Registries : Sweep(reg)

SpecRegistry == InitRegistry /\ [][NextRegistry]_vars

\* One RateLimiter built with a RequestsPerSecond of 0, and the requests that go
\* through its Limit middleware.
InitZeroRate ==
  /\ now = 0
  /\ visitors = [r \in Registries |-> [k \in Keys |-> NoVisitor]]
  /\ limiters = [r \in Registries |-> [i \in LimIds |-> NoLimiter]]
  /\ \E built \in Registries :
       sweep = [r \in Registries |-> IF r = built THEN "sleep" ELSE "off"]
  /\ req = [p \in Procs |-> IdleReq]
  /\ users = [u \in Users |-> "active"]
  /\ issued = {}
  /\ hist = [r \in Registries |-> [i \in LimIds |-> NoHist]]
  /\ swept = [r \in Registries |-> FALSE]
  /\ GeoIdle
  /\ config = [r \in Registries |-> [MainConfig(r) EXCEPT !.RequestsPerSecond = 0]]
  /\ AuditIdle

SpecZeroRate == InitZeroRate /\ [][NextRegistry]_vars

\* One RateLimiter built with either shipped configuration, its admission
\* checks served one at a time, and its sweep.
InitShipped ==
  /\ now = 0
  /\ visitors = [r \in Registries |-> [k \in Keys |-> NoVisitor]]
  /\ limiters = [r \in Registries |-> [i \in LimIds |-> NoLimiter]]
  /\ \E built \in Registries :
       sweep = [r \in Registries |-> IF r = built THEN "sleep" ELSE "off"]
  /\ req = [p \in Procs |-> IdleReq]
  /\ users = [u \in Users |-> "active"]
  /\ issued = {}
  /\ hist = [r \in Registries |-> [i \in LimIds |-> NoHist]]
  /\ swept = [r \in Registries |-> FALSE]
  /\ GeoIdle
  /\ config = [r \in Registries |-> ShippedConfig(r)]
  /\ AuditIdle

NextShipped ==
  \/ Wait
  \/ \E reg \in Registries : Check(reg)
  \/ \E reg \in Registries : Sweep(reg)

SpecShipped == InitShipped /\ [][NextShipped]_vars

\* One RateLimiter with rl.mu taken and released step by step by the requests
\* and by the cleanupVisitors goroutine.
NextLock ==
  \/ Tick
  \/ \E p \in Procs : Arrive(p)
  \/ \E p \in Procs : MuLock(p)
  \/ \E p \in Procs : GetVisitorLocked(p)
  \/ \E p \in Procs : AllowUnlocked(p)
  \/ \E p \in Procs : HandleUnlocked(p)
  \/ \E reg \in Registries : SweepWake(reg)
  \/ \E reg \in Registries : SweepLock(reg)
  \/ \E reg \in Registries : SweepPass(reg)

\* A goroutine that can run does run, and a goroutine blocked in rl.mu.Lock()
\* gets the mutex when it is released again and again (sync.Mutex hands the
\* mutex to a waiter that has waited long).  The sweep and the clock are held
\* to nothing but the release of a mutex taken.
FairLock ==
  /\ \A p \in Procs :
       /\ SF_vars(MuLock(p))
       /\ WF_vars(GetVisitorLocked(p))
       /\ WF_vars(AllowUnlocked(p))
       /\ WF_vars(HandleUnlocked(p))
  /\ \A reg \in Registries : WF_vars(SweepPass(reg))

SpecLock == InitRegistry /\ [][NextLock]_vars /\ FairLock

\* The same, with a sweep pass that may panic.
NextPanic ==
  \/ NextLock
  \/ \E reg \in Registries : SweepPanic(reg)

SpecPanic == InitRegistry /\ [][NextPanic]_vars /\ FairLock

\* The JWT manager and the Authenticate middleware, called directly.
NextAuth ==
  \/ Tick
  \/ \E p \in Procs : Login(p)
  \/ \E p \in Procs : GenIssuedAt(p)
  \/ \E p \in Procs : GenNotBefore(p)
  \/ \E p \in Procs : Present(p)
  \/ \E p \in Procs : AuthenticateStep(p)
  \/ \E p \in Procs : Handle(p)
  \/ \E u \in Users : DeactivateUser(u)
  \/ \E u \in Users : DeleteUser(u)

SpecAuth == Init /\ [][NextAuth]_vars

\* One JWTManager and one AuthMiddleware, and one request at a time carrying
\* whatever Authorization header a client can build.
NextToken ==
  \/ Tick
  \/ \E p \in RouterProcs : PresentAny(p)
  \/ \E p \in RouterProcs : AuthenticateStep(p)
  \/ \E p \in RouterProcs : RequireRoleStep(p)
  \/ \E p \in RouterProcs : Handle(p)

SpecToken == Init /\ [][NextToken]_vars

\* The same behind the Audit middleware, at one instant.
NextAudit ==
  \/ \E p \in RouterProcs : PresentAny(p)
  \/ \E p \in RouterProcs : AuthenticateStep(p)
  \/ \E p \in RouterProcs : RequireRoleStep(p)
  \/ \E p \in RouterProcs : Handle(p)
  \/ \E p \in RouterProcs : CreateAuditLog(p)

SpecAudit == Init /\ [][NextAudit]_vars

\* One LocationService over a repository with any list of at most two active
\* locations, enabled or not, its fetch failing or not, and the calls of
\* ValidateCheckInLocation.
InitGeofence ==
  /\ now = 0
  /\ visitors = [r \in Registries |-> [k \in Keys |-> NoVisitor]]
  /\ limiters = [r \in Registries |-> [i \in LimIds |-> NoLimiter]]
  /\ sweep = [r \in Registries |-> "sleep"]
  /\ req = [p \in Procs |-> IdleReq]
  /\ users = [u \in Users |-> "active"]
  /\ issued = {}
  /\ hist = [r \in Registries |-> [i \in LimIds |-> NoHist]]
  /\ swept = [r \in Registries |-> FALSE]
  /\ geo \in [enabled : BOOLEAN, zones : Lists(Cardinality(ZoneSlots)),
               storeFails : BOOLEAN]
  /\ call = NoCall
  /\ near = NoNear
  /\ presensi = NoPresensi
  /\ ci = [p \in Procs |-> IdleCheckIn]
  /\ RestIdle

NextGeofence ==
  \/ ValidateCheckIn
  \/ NearestLocation

SpecGeofence == InitGeofence /\ [][NextGeofence]_vars

\* The check-in route behind Authenticate, with geofencing configured in any
\* way over at most one active location.
InitCheckIn ==
  /\ InitGeofence
  /\ Len(geo.zones) <= 1

NextCheckIn ==
  \/ \E p \in RouterProcs : CheckInGetByID(p)
  \/ \E p \in RouterProcs : CheckInEntity(p)
  \/ \E p \in RouterProcs : CheckInUpdate(p)

SpecCheckIn == InitCheckIn /\ [][NextCheckIn]_vars

\* One attendance record, made by NewPresensi with any valid status, and the
\* check-in, check-out and update requests on it.
InitPresensi ==
  /\ now = 0
  /\ visitors = [r \in Registries |-> [k \in Keys |-> NoVisitor]]
  /\ limiters = [r \in Registries |-> [i \in LimIds |-> NoLimiter]]
  /\ sweep = [r \in Registries |-> "sleep"]
  /\ req = [p \in Procs |-> IdleReq]
  /\ users = [u \in Users |-> "active"]
  /\ issued = {}
  /\ hist = [r \in Registries |-> [i \in LimIds |-> NoHist]]
  /\ swept = [r \in Registries |-> FALSE]
  /\ geo = NoGeo
  /\ call = NoCall
  /\ near = NoNear
  /\ \E status \in StatusPresensi : presensi = NewPresensi(status, "", now).rec
  /\ ci = [p \in Procs |-> IdleCheckIn]
  /\ RestIdle

\* the requests come one after the other
NextPresensi ==
  \/ Tick
  \/ \E p \in RouterProcs : CheckInGetByID(p)
  \/ \E p \in RouterProcs : CheckInEntity(p)
  \/ \E p \in RouterProcs : CheckInUpdate(p)
  \/ \E p \in RouterProcs : CheckOutGetByID(p)
  \/ \E p \in RouterProcs : CheckOutEntity(p)
  \/ \E p \in RouterProcs : CheckOutUpdate(p)
  \/ \E p \in RouterProcs : UpdateGetByID(p)
  \/ \E p \in RouterProcs : UpdateEntity(p)
  \/ \E p \in RouterProcs : UpdateUpdate(p)

SpecPresensi == InitPresensi /\ [][NextPresensi]_vars

\* check-in and check-out requests served concurrently
NextConcurrent ==
  \/ Tick
  \/ \E p \in Procs : CheckInGetByID(p)
  \/ \E p \in Procs : CheckInEntity(p)
  \/ \E p \in Procs : CheckInUpdate(p)
  \/ \E p \in Procs : CheckOutGetByID(p)
  \/ \E p \in Procs : CheckOutEntity(p)
  \/ \E p \in Procs : CheckOutUpdate(p)

SpecConcurrent == InitPresensi /\ [][NextConcurrent]_vars

\* Register calls served concurrently
NextRegister ==
  \/ \E p \in Procs : RegisterGetByEmail(p)
  \/ \E p \in Procs : RegisterCreate(p)
  \/ \E p \in Procs : RegisterReturn(p)

SpecRegister == Init /\ [][NextRegister]_vars

\* requests keyed by Limit
NextGetIP == LimitGetIP

SpecGetIP == Init /\ [][NextGetIP]_vars

\* ------------------------------------------------------------ properties
\* the fill the bucket description gives a bucket at time t:
\* min(capacity, tokens + elapsed * rate), a new bucket being full
Fill(reg, lim, t) ==
  IF lim.last = ZeroTime THEN Config(reg).BurstSize * TokenScale
  ELSE Min(Config(reg).BurstSize * TokenScale,
           lim.tokens + (t - lim.last) * Config(reg).RequestsPerSecond)

Live(reg) == {i \in LimIds : limiters[reg][i].live}

\* the step in which request p gets limiter.Allow()'s answer in a stage
AllowStep(p, stage) == req[p].pc = AllowPc(stage) /\ req'[p].pc # AllowPc(stage)

Refused(rq) == rq.pc = "done" /\ rq.status = StatusTooManyRequests

\* C1: the fill of every bucket, stored and as observed at the current time,
\* is at least 0 and at most the burst size.
C1_TokensWithinCapacity ==
  \A reg \in Registries : \A i \in Live(reg) :
    /\ 0 <= limiters[reg][i].tokens
    /\ limiters[reg][i].tokens <= Config(reg).BurstSize * TokenScale
    /\ 0 <= Advance(reg, limiters[reg][i], now)
    /\ Advance(reg, limiters[reg][i], now) <= Config(reg).BurstSize * TokenScale

\* a bucket emptied by consumption at this instant, and a bucket whose refill
\* is clipped at the burst size
C1_Witness ==
  \E reg \in Registries : \E i, j \in Live(reg) :
    /\ limiters[reg][i].tokens < TokenScale /\ limiters[reg][i].last = now
    /\ limiters[reg][j].last # ZeroTime
    /\ limiters[reg][j].tokens + (now - limiters[reg][j].last) * Config(reg).RequestsPerSecond
         > Config(reg).BurstSize * TokenScale

\* C2: after a bucket has allowed c checks at one instant, a check made less
\* than 1/r later is refused, and of the checks made from 1/r (and before 2/r)
\* later exactly the first is allowed.
C2_BurstThenOnePerPeriod ==
  [][\A p \in Procs, stage \in Stages :
       LET reg == LimiterOf(stage)
           h == hist[reg][req[p].lim]
           elapsed == (now - h.burstAt) * Config(reg).RequestsPerSecond
       IN  (AllowStep(p, stage) /\ h.burstAt # ZeroTime)
             => (~Refused(req'[p]) <=> (h.extra = 0 /\ elapsed >= TokenScale))]_vars

\* a burst, a wait of 1/r, one more check allowed and the bucket empty again
C2_Witness ==
  \E reg \in Registries : \E i \in Live(reg) :
    /\ hist[reg][i].burstAt # ZeroTime
    /\ (now - hist[reg][i].burstAt) * Config(reg).RequestsPerSecond >= TokenScale
    /\ hist[reg][i].extra = 1
    /\ Fill(reg, limiters[reg][i], now) < TokenScale

\* C3: while no time has passed since a key's first access, the bucket created
\* for it is the one stored under the key, it has allowed at most c checks,
\* and a check on it is refused only when c checks have been allowed.
C3_OneBucketMinNC ==
  [][/\ \A reg \in Registries, i \in LimIds :
          hist'[reg][i].fresh =>
            /\ i \in InMap(visitors'[reg])
            /\ hist'[reg][i].served <= Config(reg).BurstSize
     /\ \A p \in Procs, stage \in Stages :
          (AllowStep(p, stage) /\ hist[LimiterOf(stage)][req[p].lim].fresh)
            => (Refused(req'[p])
                  <=> hist[LimiterOf(stage)][req[p].lim].served
                        = Config(LimiterOf(stage)).BurstSize)]_vars

\* two concurrent first accesses hold the same new bucket, which has already
\* allowed c checks
C3_Witness ==
  \E reg \in Registries : \E i \in Live(reg) :
    /\ hist[reg][i].fresh
    /\ hist[reg][i].served = Config(reg).BurstSize
    /\ \A p \in Procs : req[p].lim = i /\ \E st \in Stages : req[p].pc = AllowPc(st)

\* C4: a request that has fetched its bucket and not yet consumed holds the
\* bucket stored in the registry under its key.
C4_ConsumeOnStoredBucket ==
  \A p \in Procs, stage \in Stages :
    req[p].pc = AllowPc(stage)
      => visitors[LimiterOf(stage)][req[p].key].limiter = req[p].lim

\* an entry of the registry is stale at time t
Stale(reg, v, t) == v.limiter # 0 /\ t - v.lastSeen > Config(reg).MaxAge

\* C5: a sweep pass removes exactly the entries last seen more than MaxAge ago;
\* the other entries, their buckets, the other registry and everything else
\* are as before.
C5_SweepRemovesExactlyStale ==
  [][\A reg \in Registries :
       /\ swept'[reg] => \A k \in Keys : ~Stale(reg, visitors'[reg][k], now')
       /\ (~swept[reg] /\ swept'[reg]) =>
            /\ \A k \in Keys :
                 IF Stale(reg, visitors[reg][k], now)
                 THEN visitors'[reg][k] = NoVisitor
                 ELSE /\ visitors'[reg][k] = visitors[reg][k]
                      /\ visitors[reg][k].limiter # 0 =>
                           limiters'[reg][visitors[reg][k].limiter]
                             = limiters[reg][visitors[reg][k].limiter]
            /\ \A r \in Registries \ {reg} :
                 visitors'[r] = visitors[r] /\ limiters'[r] = limiters[r]
            /\ UNCHANGED <<now, sweep, req, users, issued>>]_vars

\* after a pass: an entry was removed (a request still holds its bucket) and
\* an entry last seen exactly MaxAge ago is still there
C5_Witness ==
  \E reg \in Registries :
    /\ swept[reg]
    /\ \E p \in Procs, st \in Stages :
         /\ req[p].pc = AllowPc(st) /\ LimiterOf(st) = reg
         /\ req[p].lim \notin InMap(visitors[reg])
    /\ \E k \in Keys :
         visitors[reg][k].limiter # 0 /\ now - visitors[reg][k].lastSeen = Config(reg).MaxAge

\* C6: a refused check takes no token: the bucket's fill after it is the
\* lazily refilled fill before it, and no entry and no other bucket changes.
C6_RefusedTakesNoToken ==
  [][\A p \in Procs, stage \in Stages :
       LET reg == LimiterOf(stage)
           id == req[p].lim
       IN  (AllowStep(p, stage) /\ Refused(req'[p])) =>
             /\ limiters'[reg][id].live =>
                  Fill(reg, limiters'[reg][id], now) = Fill(reg, limiters[reg][id], now)
             /\ id \in InMap(visitors[reg]) => limiters'[reg][id].live
             /\ \A j \in LimIds \ {id} : limiters'[reg][j] = limiters[reg][j]
             /\ \A r \in Registries \ {reg} : limiters'[r] = limiters[r]
             /\ visitors' = visitors]_vars

\* a request was refused by a bucket that holds part of a token
C6_Witness ==
  /\ \E p \in Procs : Refused(req[p])
  /\ \E reg \in Registries : \E i \in Live(reg) :
       /\ 0 < Fill(reg, limiters[reg][i], now)
       /\ Fill(reg, limiters[reg][i], now) < TokenScale
       /\ limiters[reg][i].last < now

\* a step of the Limit middleware of a stage (getVisitor or Allow) by request p
LimitStep(p, stage) ==
  \/ req[p].pc # AllowPc(stage) /\ req'[p].pc = AllowPc(stage)
  \/ AllowStep(p, stage)

\* C7: an admission check or a sweep pass of one registry leaves the entries
\* and buckets of the other registry unchanged, and the global stage's answer
\* is decided by the global bucket alone.
C7_RegistriesIndependent ==
  [][/\ \A p \in Procs :
          /\ LimitStep(p, "global") =>
               visitors'["login"] = visitors["login"] /\ limiters'["login"] = limiters["login"]
          /\ LimitStep(p, "login") =>
               visitors'["global"] = visitors["global"] /\ limiters'["global"] = limiters["global"]
          /\ AllowStep(p, "global") =>
               (Refused(req'[p])
                  <=> Fill("global", limiters["global"][req[p].lim], now) < TokenScale)
     /\ (~swept["global"] /\ swept'["global"]) =>
          visitors'["login"] = visitors["login"] /\ limiters'["login"] = limiters["login"]
     /\ (~swept["login"] /\ swept'["login"]) =>
          visitors'["global"] = visitors["global"] /\ limiters'["global"] = limiters["global"]]_vars

\* a request the global registry allowed is refused by the login registry,
\* whose bucket for the key is exhausted while the global bucket is not
C7_Witness ==
  \E p \in Procs, k \in Keys :
    /\ Refused(req[p]) /\ req[p].trace = <<"global", "login">>
    /\ visitors["login"][k].limiter # 0 /\ visitors["global"][k].limiter # 0
    /\ Fill("login", limiters["login"][visitors["login"][k].limiter], now) < TokenScale
    /\ Fill("global", limiters["global"][visitors["global"][k].limiter], now) >= TokenScale

\* the stages of a route, in the order NewRouter chains them
Chain(route) ==
  IF route = "login" THEN <<"global", "login", "handler", "token">>
  ELSE IF route = "protected" THEN <<"global", "authenticate", "handler">>
  ELSE IF route = "admin" THEN <<"global", "authenticate", "require_role", "handler">>
  ELSE <<"global", "handler">>

IsPrefix(s, t) == Len(s) <= Len(t) /\ \A i \in 1..Len(s) : s[i] = t[i]

\* the stages a request has passed when it stands at a position
Passed(rq) ==
  CASE rq.pc = "global_allow" -> << >>
    [] rq.pc \in {"login_visitor", "authenticate"} -> <<"global">>
    [] rq.pc = "login_allow" -> <<"global">>
    [] rq.pc = "handler" /\ rq.route = "login" -> <<"global", "login">>
    [] rq.pc = "handler" /\ rq.route = "protected" -> <<"global", "authenticate">>
    [] rq.pc = "require_role" -> <<"global", "authenticate">>
    [] rq.pc = "handler" /\ rq.route = "admin" ->
         <<"global", "authenticate", "require_role">>
    [] rq.pc = "handler" -> <<"global">>
    [] rq.pc \in {"gen_iat", "gen_nbf"} -> <<"global", "login", "handler">>
    [] OTHER -> rq.trace

\* C8: the stages run in the order global admission, login admission (login
\* route), token validation (protected routes), handler, each only after every
\* earlier one accepted; a refused request is answered at once with 429 and
\* Retry-After, and a request the global registry refused leaves the login
\* registry alone, is not validated and reaches no handler.
C8_StageOrder ==
  /\ [](\A p \in Procs :
          LET rq == req[p]
          IN  /\ rq.pc # "idle" => IsPrefix(rq.trace, Chain(rq.route))
              /\ rq.pc \notin {"idle", "done"} => rq.trace = Passed(rq) /\ rq.status = 0
              /\ rq.pc = "login_visitor" \/ rq.pc = "login_allow" => rq.route = "login"
              /\ rq.pc = "authenticate" => rq.route \in {"protected", "admin"}
              /\ rq.pc = "require_role" => rq.route = "admin"
              /\ rq.status = StatusTooManyRequests =>
                   /\ rq.pc = "done" /\ rq.retryAfter
                   /\ rq.trace = <<"global">>
                        \/ (rq.trace = <<"global", "login">> /\ rq.route = "login")
              /\ rq.retryAfter => rq.status = StatusTooManyRequests)
  /\ [][\A p \in Procs :
          /\ (AllowStep(p, "global") /\ Refused(req'[p])) =>
               /\ visitors'["login"] = visitors["login"]
               /\ limiters'["login"] = limiters["login"]
               /\ UNCHANGED <<users, issued>>
          /\ \A stage \in Stages :
               (AllowStep(p, stage)
                  /\ Fill(stage, limiters[stage][req[p].lim], now) < TokenScale)
                 => Refused(req'[p])
          /\ Refused(req[p]) /\ req'[p] # req[p] => req'[p].pc = "global_allow"]_vars

\* a login request the global registry refused: answered 429 with Retry-After
\* before the login registry, while the login registry has a bucket for no key
C8_Witness ==
  \E p \in Procs :
    /\ Refused(req[p]) /\ req[p].route = "login" /\ req[p].trace = <<"global">>
    /\ req[p].retryAfter
    /\ \A k \in Keys : visitors["login"][k] = NoVisitor

\* validation of an issued token at any time t succeeds exactly when
\* nbf <= t < exp, and fails as expired at t = exp
ValidInWindow ==
  \A tok \in issued :
    /\ \A t \in Time \cup {tok.exp} :
         ValidateToken(tok, t) = "ok" <=> (tok.nbf <= t /\ t < tok.exp)
    /\ ValidateToken(tok, tok.exp) = ErrExpiredToken

\* C9: for every issued token and every time t, validation succeeds exactly
\* when nbf <= t < exp; it fails as expired at t = exp, succeeds at t = exp - 1
\* and succeeds at t = iat.
C9_ValidExactlyInWindow ==
  /\ ValidInWindow
  /\ \A tok \in issued :
       /\ ValidateToken(tok, tok.exp - 1) = "ok"
       /\ ValidateToken(tok, tok.iat) = "ok"

\* C10: Authenticate accepts an issued token exactly when nbf <= now < exp,
\* whatever the state of its user and whatever other tokens exist; no token is
\* ever withdrawn; an expired token stays expired and a valid one stays valid
\* until exp.
C10_NoRevocation ==
  [][/\ issued \subseteq issued'
     /\ \A p \in Procs :
          (req[p].pc = "authenticate" /\ req'[p].pc # "authenticate" /\ req[p].tok \in issued)
            => /\ req'[p].pc = "handler" <=> (req[p].tok.nbf <= now /\ now < req[p].tok.exp)
               /\ req'[p].pc # "handler" =>
                    req'[p].pc = "done" /\ req'[p].status = StatusUnauthorized
     /\ \A tok \in issued :
          /\ ValidateToken(tok, now) = ErrExpiredToken =>
               ValidateToken(tok, now') = ErrExpiredToken
          /\ (ValidateToken(tok, now) = "ok" /\ now' < tok.exp) =>
               ValidateToken(tok, now') = "ok"]_vars

\* Authenticate has accepted a token whose user is no longer active and to
\* whom a newer token has been issued
C10_Witness ==
  \E p \in Procs :
    /\ req[p].pc = "handler" /\ req[p].route = "protected"
    /\ users[req[p].tok.sub] # "active"
    /\ \E tok \in issued : tok.sub = req[p].tok.sub /\ tok.iat > req[p].tok.iat

\* the claims ValidateToken returns carry the subject, email and role given
\* to GenerateToken and the three timestamps of the token
FieldsKept ==
  \A tok \in issued :
    LET c == ClaimsOf(tok)
    IN  /\ c.UserID \in Users
        /\ c.Email = EmailOf(c.UserID) /\ c.Role = RoleOf(c.UserID)
        /\ c.IssuedAt = tok.iat /\ c.NotBefore = tok.nbf /\ c.ExpiresAt = tok.exp
        /\ tok.nbf < tok.exp => ValidateToken(tok, tok.nbf) = "ok"

\* C11: every issued token validates at now = issuedAt and the claims returned
\* lose no field: subject, email and role are the inputs, tokenType is access
\* or refresh, and the timestamps are those written at issue.
C11_RoundTrip ==
  /\ FieldsKept
  /\ \A tok \in issued :
       /\ ValidateToken(tok, tok.iat) = "ok"
       /\ ClaimsOf(tok).TokenType \in {"access", "refresh"}

\* C12: every issued token has issuedAt = notBefore and expiresAt = issuedAt +
\* the access duration, also when the clock advances during GenerateToken.
C12_SingleIssueInstant ==
  \A tok \in issued :
    /\ tok.iat = tok.nbf
    /\ tok.exp = tok.iat + AccessDuration

\* the step in which Authenticate answers or passes request p on
AuthStep(p) == req[p].pc = "authenticate" /\ req'[p].pc # "authenticate"

\* the token is signed by a method of the HMAC family with the manager's secret
WellSigned(tok) ==
  tok.alg \in {"HS256", "HS384"} /\ tok.sig = [key |-> "secretKey", payload |-> Payload(tok)]

\* C13: a failing validation is answered with one of two errors: expired when
\* the token is well signed and now >= exp, invalid for every other failure; a
\* token whose signature does not verify is never reported expired.
C13_TwoFailureKinds ==
  [][\A p \in Procs :
       (AuthStep(p) /\ req[p].tok \notin {NoToken, BadHeader}) =>
         LET tok == req[p].tok
             failed == req'[p].pc = "done"
         IN  /\ failed <=> ~(WellSigned(tok) /\ tok.nbf <= now /\ now < tok.exp)
             /\ failed => /\ req'[p].status = StatusUnauthorized
                          /\ req'[p].err \in {ErrExpiredToken, ErrInvalidToken}
                          /\ req'[p].err = ErrExpiredToken
                               <=> (WellSigned(tok) /\ now >= tok.exp)]_vars

\* an expired token signed with another key was answered invalid
C13_Witness ==
  \E p \in Procs :
    /\ req[p].pc = "done" /\ req[p].err = ErrInvalidToken
    /\ ~WellSigned(req[p].tok) /\ req[p].tok.alg \in {"HS256", "HS384"}
    /\ req[p].tok.sig.key = "otherKey"
    /\ req[p].tok.exp <= now /\ req[p].tok.exp # ZeroTime
    /\ req[p].tok.sig.payload = Payload(req[p].tok)

\* C14: a token whose header names a method outside the HMAC family, or one
\* signed with another secret, is answered invalid whatever its claims, and
\* the key function hands out no key for a method outside the HMAC family.
C14_AlgorithmAndSecret ==
  [][\A p \in Procs :
       LET tok == req[p].tok
       IN  (AuthStep(p) /\ tok \notin {NoToken, BadHeader}
              /\ (tok.alg \notin {"HS256", "HS384"} \/ tok.sig.key # "secretKey")) =>
             /\ req'[p].pc = "done" /\ req'[p].status = StatusUnauthorized
             /\ req'[p].err = ErrInvalidToken
             /\ req'[p].role = "" /\ req'[p].user = ""
             /\ tok.alg \notin {"HS256", "HS384"} => Keyfunc(tok).key = ""]_vars

\* an unexpired admin token under RS256 carrying a signature made with the
\* secret was refused
C14_Witness ==
  \E p \in Procs :
    /\ req[p].pc = "done" /\ req[p].err = ErrInvalidToken
    /\ req[p].tok.alg = "RS256" /\ req[p].tok.sig.key = "secretKey"
    /\ req[p].tok.sig.payload = Payload(req[p].tok)
    /\ req[p].tok.nbf <= now /\ now < req[p].tok.exp

\* C15: on an admin route the handler runs exactly when the token validates
\* and its role is a required one; a missing, malformed, tampered or expired
\* token is answered 401, a valid token with another role 403.
C15_RoleGate ==
  [][\A p \in Procs :
       LET rq == req[p]
           valid == rq.tok \in Presentable \ {NoToken, BadHeader, Malformed}
                      /\ WellSigned(rq.tok) /\ rq.tok.nbf <= now /\ now < rq.tok.exp
       IN  /\ (AuthStep(p) /\ rq.route = "admin") =>
                IF valid
                THEN req'[p].pc = "require_role" /\ req'[p].role = rq.tok.role
                ELSE req'[p].pc = "done" /\ req'[p].status = StatusUnauthorized
           /\ (rq.pc = "require_role" /\ req'[p].pc # "require_role") =>
                IF rq.tok.role \in RequiredRoles
                THEN req'[p].pc = "handler"
                ELSE req'[p].pc = "done" /\ req'[p].status = StatusForbidden
           /\ (req'[p].pc = "handler" /\ rq.pc # "handler" /\ req'[p].route = "admin") =>
                rq.pc = "require_role"]_vars

\* a valid employee token was answered 403 on an admin route
C15_Witness ==
  \E p \in Procs :
    /\ req[p].pc = "done" /\ req[p].route = "admin"
    /\ req[p].status = StatusForbidden
    /\ req[p].trace = <<"authenticate", "require_role">>
    /\ req[p].tok.role = "employee" /\ WellSigned(req[p].tok)

\* ---- geofence
Sentinel(lat, lon) == lat = 0 /\ lon = 0

\* the coordinate is within the radius of no location of the service
OutsideAll(svc, lat, lon) ==
  \A i \in 1..Len(svc.zones) :
    HaversineDistance(lat, lon, svc.zones[i].Latitude, svc.zones[i].Longitude)
      > svc.zones[i].RadiusMeters

\* C16: with geofencing enabled and at least one active location, a check-in is
\* recorded (the record's check-in time set, the request answered 200) only
\* for a coordinate ValidateCheckInLocation accepts; a coordinate outside every
\* location leaves the check-in time unset.
C16_GeofenceGatesCheckIn ==
  \A p \in RouterProcs :
    (/\ geo.enabled
     /\ ~geo.storeFails
     /\ Len(geo.zones) >= 1
     /\ ci[p].pc \in {"update", "done"}
     /\ ~Sentinel(ci[p].coord.lat, ci[p].coord.lon)
     /\ OutsideAll(geo, ci[p].coord.lat, ci[p].coord.lon))
    => /\ ~ci[p].stored
       /\ ci[p].status # StatusOK
       /\ (ci[p].copy.JamMasuk # ZeroTime => ci[p].err = ErrAlreadyCheckedIn)

\* C17 as stated: with geofencing enabled and an empty list of locations, every
\* call is rejected with ErrNoAllowedLocations, the (0,0) coordinate included.
C17_EmptyListRejectsAll ==
  (call.made /\ geo.enabled /\ ~geo.storeFails /\ Len(geo.zones) = 0)
  => call.err = ErrNoAllowedLocations

\* C17: with geofencing enabled and an empty list of locations, a call with a
\* coordinate other than (0,0) is rejected with ErrNoAllowedLocations, and a
\* call with (0,0) is accepted without fetching the list.
C17_EmptyListRejectsProvided ==
  (call.made /\ geo.enabled /\ ~geo.storeFails /\ Len(geo.zones) = 0)
  => IF Sentinel(call.lat, call.lon)
     THEN call.err = "nil" /\ ~call.fetched
     ELSE call.err = ErrNoAllowedLocations

\* a coordinate other than (0,0) was rejected for want of locations
C17_Witness ==
  /\ call.made
  /\ geo.enabled
  /\ ~geo.storeFails
  /\ Len(geo.zones) = 0
  /\ ~Sentinel(call.lat, call.lon)
  /\ call.fetched
  /\ call.err = ErrNoAllowedLocations

\* C18: a call is accepted without GetAllActive being called whenever
\* geofencing is disabled, whatever the coordinate, the list or the state of
\* the store, and whenever it is enabled and the coordinate is (0,0).
C18_AcceptsWithoutFetch ==
  (call.made /\ (~geo.enabled \/ Sentinel(call.lat, call.lon)))
  => (call.err = "nil" /\ ~call.fetched)

\* (0,0) was accepted by an enabled service whose store has no location and
\* fails
C18_Witness ==
  /\ call.made
  /\ geo.enabled
  /\ geo.storeFails
  /\ Sentinel(call.lat, call.lon)
  /\ call.err = "nil"
  /\ ~call.fetched

\* C19: with geofencing enabled, a coordinate other than (0,0) and the list
\* fetched, the call is accepted exactly when some location is at a distance of
\* at most its radius; otherwise it is rejected with ErrNoAllowedLocations when
\* the list is empty and with ErrOutsideAllowedArea when it is not.
C19_AcceptIffWithinSomeRadius ==
  (call.made /\ geo.enabled /\ ~geo.storeFails /\ ~Sentinel(call.lat, call.lon))
  => /\ call.err = "nil" <=>
          \E i \in 1..Len(geo.zones) :
            HaversineDistance(call.lat, call.lon,
                              geo.zones[i].Latitude, geo.zones[i].Longitude)
              <= geo.zones[i].RadiusMeters
     /\ call.err # "nil" =>
          call.err = IF Len(geo.zones) = 0 THEN ErrNoAllowedLocations
                     ELSE ErrOutsideAllowedArea

\* a coordinate exactly at the radius of the only location was accepted
C19_Witness ==
  /\ call.made
  /\ geo.enabled
  /\ ~geo.storeFails
  /\ ~Sentinel(call.lat, call.lon)
  /\ Len(geo.zones) = 1
  /\ HaversineDistance(call.lat, call.lon,
                       geo.zones[1].Latitude, geo.zones[1].Longitude)
       = geo.zones[1].RadiusMeters
  /\ call.err = "nil"

\* C20: with geofencing enabled and a coordinate other than (0,0), a failing
\* fetch makes the call return the store's error: neither "nil" nor one of the
\* two geofence rejections.
C20_FetchFailureReturned ==
  (call.made /\ geo.enabled /\ geo.storeFails /\ ~Sentinel(call.lat, call.lon))
  => /\ call.fetched
     /\ call.err = ErrStore
     /\ call.err \notin {"nil", ErrOutsideAllowedArea, ErrNoAllowedLocations}

\* the store failed under a call whose coordinate lies within a location
C20_Witness ==
  /\ call.made
  /\ geo.enabled
  /\ geo.storeFails
  /\ ~Sentinel(call.lat, call.lon)
  /\ Len(geo.zones) >= 1
  /\ ~OutsideAll(geo, call.lat, call.lon)
  /\ call.err = ErrStore

DistanceTo(i, lat, lon) ==
  HaversineDistance(lat, lon, geo.zones[i].Latitude, geo.zones[i].Longitude)

\* C21: over a fetched list that is not empty, GetNearestLocation returns a
\* location at the least distance of the whole list and that distance,
\* whatever the radii, whether geofencing is enabled and whatever
\* ValidateCheckInLocation answers; of several locations at the least distance
\* it returns the first of the list.
C21_NearestIsFirstMinimum ==
  (near.made /\ ~geo.storeFails /\ Len(geo.zones) >= 1)
  => /\ near.err = "nil"
     /\ near.nearest \in 1..Len(geo.zones)
     /\ near.distance = DistanceTo(near.nearest, near.lat, near.lon)
     /\ \A i \in 1..Len(geo.zones) :
          /\ DistanceTo(i, near.lat, near.lon) >= near.distance
          /\ DistanceTo(i, near.lat, near.lon) = near.distance => near.nearest <= i

\* of two locations at the same distance, both with the coordinate outside
\* their radius, the first was returned
C21_Witness ==
  /\ near.made
  /\ ~geo.storeFails
  /\ Len(geo.zones) = 2
  /\ geo.zones[1] # geo.zones[2]
  /\ DistanceTo(1, near.lat, near.lon) = DistanceTo(2, near.lat, near.lon)
  /\ DistanceTo(1, near.lat, near.lon) > geo.zones[1].RadiusMeters
  /\ near.nearest = 1
  /\ near.err = "nil"

\* C23: with a RequestsPerSecond of 0 and a BurstSize of c, an admission check
\* on a limiter is allowed exactly when fewer than c checks were made on it
\* before: the first c are allowed and every later one is refused, however
\* much time has passed, until the entry is swept and made anew.
C23_ZeroRateBurstOnly ==
  [][\A p \in Procs, stage \in Stages :
       LET reg == LimiterOf(stage)
           id == req[p].lim
       IN  (AllowStep(p, stage) /\ Config(reg).RequestsPerSecond = 0) =>
             (Refused(req'[p]) <=> hist[reg][id].checks >= Config(reg).BurstSize)]_vars

\* a check was refused by a limiter that served its burst at an earlier time
\* and whose entry is still in the map
C23_Witness ==
  \E reg \in Registries : \E i \in Live(reg) :
    /\ Config(reg).RequestsPerSecond = 0
    /\ i \in InMap(visitors[reg])
    /\ hist[reg][i].checks = Config(reg).BurstSize + 1
    /\ now > 0
    /\ \E p \in Procs : Refused(req[p])

\* a request between its arrival and its answer
InFlight(p) == req[p].pc \notin {"idle", "done"}

\* C22: every admission check that starts is answered, whatever the sweep
\* does; a sweep pass that took rl.mu releases it, over an empty map too.
C22_ChecksAnswered ==
  /\ \A p \in Procs : InFlight(p) ~> (req[p].pc = "done")
  /\ \A reg \in Registries : (sweep[reg] = "locked") ~> (sweep[reg] = "sleep")

\* a request waits at rl.mu.Lock() while the sweep holds rl.mu over an empty map
C22_Witness ==
  \E reg \in Registries, p \in Procs, stage \in Stages :
    /\ LimiterOf(stage) = reg
    /\ sweep[reg] = "locked"
    /\ req[p].pc = VisitorPc(stage)
    /\ InMap(visitors[reg]) = {}

\* C24: a panic inside a sweep pass leaves the request path working: every
\* admission check in flight or started later is answered, and rl.mu is not
\* left locked by the sweep.
C24_SweepFailureIsolated ==
  /\ \A p \in Procs : InFlight(p) ~> (req[p].pc = "done")
  /\ \A reg \in Registries : [](sweep[reg] = "panicked" => MuFree(reg))

\* C25: the audit log entry of a write request that passed Authenticate
\* carries the user ID and the role Authenticate put into the request context;
\* the user ID is not empty.
C25_AuditCarriesUser ==
  (audit.made /\ audit.passed)
  => /\ audit.UserID = Value(audit.attached, UserIDKey)
     /\ audit.UserRole = Value(audit.attached, RoleKey)
     /\ audit.UserID # ""

\* ---- attendance record
Succeeded(p, op) == ci[p].pc = "done" /\ ci[p].op = op /\ ci[p].status = StatusOK

\* C26: of the check-in requests racing on a record without a check-in time at
\* most one is answered 200, the others fail with ErrAlreadyCheckedIn; of the
\* check-out requests racing on a record at most one is answered 200.
C26_OneRequestWins ==
  \A op \in {"checkin", "checkout"} :
    Cardinality({p \in Procs : Succeeded(p, op)}) <= 1

\* a record keeps its check-in and check-out time from rec to rec2
TimesKept(rec, rec2) ==
  /\ rec.JamMasuk # ZeroTime => rec2.JamMasuk = rec.JamMasuk
  /\ rec.JamKeluar # ZeroTime => rec2.JamKeluar = rec.JamKeluar

\* C27: with the requests on a record served one after the other, the stored
\* record and the copy a request works on have a check-out time only with a
\* check-in time; a time once set stays as it is; and a CheckIn or CheckOut
\* that returns an error leaves the copy and the stored record as they were
\* and writes nothing to the store.
C27_RecordInvariants ==
  /\ [](/\ presensi.JamKeluar # ZeroTime => presensi.JamMasuk # ZeroTime
        /\ \A p \in Procs :
             ci[p].copy.JamKeluar # ZeroTime => ci[p].copy.JamMasuk # ZeroTime)
  /\ [][/\ TimesKept(presensi, presensi')
        /\ \A p \in Procs :
             /\ (ci[p].pc \notin {"idle", "done"} /\ ci'[p].pc # "idle")
                  => TimesKept(ci[p].copy, ci'[p].copy)
             /\ (ci[p].pc \in {"loaded", "loaded_out"} /\ ci'[p].pc = "done")
                  => /\ ci'[p].err \in {ErrAlreadyCheckedIn, ErrNotCheckedIn,
                                        ErrAlreadyCheckedOut}
                     /\ ci'[p].copy = ci[p].copy
                     /\ presensi' = presensi
                     /\ ~ci'[p].stored
             /\ (ci'[p].stored /\ ~ci[p].stored) => ci[p].err = ""]_vars

\* a check-in at a later time was refused on a record checked in and out
C27_Witness ==
  \E p \in Procs :
    /\ ci[p].pc = "done" /\ ci[p].op = "checkin"
    /\ ci[p].err = ErrAlreadyCheckedIn
    /\ ~ci[p].stored
    /\ presensi.JamMasuk # ZeroTime /\ presensi.JamMasuk < now
    /\ presensi.JamKeluar # ZeroTime

\* C28: under either shipped configuration, with the admission checks served
\* one at a time and the sweep running whenever it likes, every check gets the
\* answer a registry that never evicts gives it.
C28_EvictionUnobservable ==
  answers.made => answers.ok = answers.okNever

\* a check made a new entry for a key whose bucket, had it been kept, would
\* hold the tokens of an earlier burst
C28_Witness ==
  /\ answers.made
  /\ answers.created
  /\ ~answers.createdNever
  /\ answers.ok
  /\ \E reg \in Registries : \E k \in Keys :
       /\ never[reg].visitors[k].limiter # 0
       /\ visitors[reg][k].limiter # 0
       /\ limiters[reg][visitors[reg][k].limiter].tokens
            = (Config(reg).BurstSize - 1) * TokenScale

\* C29: no two stored users share an email, and of the Register calls being
\* served with one email at most one has created a user and holds a token.
C29_EmailUnique ==
  /\ \A i, j \in 1..Len(collection) :
       collection[i].email = collection[j].email => i = j
  /\ \A p, q \in Procs :
       /\ register[p].token
       /\ register[q].token
       /\ register[p].Email = register[q].Email
       => p = q

\* C30: two requests from one address that carry neither X-Forwarded-For nor
\* X-Real-IP get the same key whatever their source ports, and the key of a
\* request is its X-Forwarded-For value, else its X-Real-IP value, else its
\* remote address.
C30_OneBucketPerAddress ==
  /\ \A i, j \in 1..Len(charged) :
       /\ charged[i].r.XForwardedFor = "" /\ charged[i].r.XRealIP = ""
       /\ charged[j].r.XForwardedFor = "" /\ charged[j].r.XRealIP = ""
       /\ charged[i].r.ip = charged[j].r.ip
       => charged[i].key = charged[j].key
  /\ \A i \in 1..Len(charged) :
       LET r == charged[i].r
       IN  charged[i].key =
             IF r.XForwardedFor # "" THEN <<r.XForwardedFor>>
             ELSE IF r.XRealIP # "" THEN <<r.XRealIP>>
             ELSE RemoteAddr(r.ip, r.port)

====
